---- MODULE Spec2Model ----
(***************************************************************************)
(* State-machine model of engine/simulator.py (class Simulator): the       *)
(* rollback closure helpers and the step() transition over a mutable       *)
(* field map `state` and an ordered execution history `executed_nodes`.    *)
(*                                                                         *)
(* Python values are modelled as follows:                                  *)
(*   dict            a function whose DOMAIN is the set of keys present    *)
(*   list            a sequence                                            *)
(*   set             a set                                                 *)
(*   str             a string, for the names the simulator handles (node,  *)
(*                   field, slot, policy, action type)                     *)
(*   None/True/False as the value of an action key: the strings "None",    *)
(*                   "True", "False" (action keys are compared with names) *)
(*   a state value   a record [t |-> type, v |-> content]: the validators  *)
(*                   test types (isinstance) and compare values of         *)
(*                   different types; a str value is the list of its       *)
(*                   characters.  The list kept under `_pending_slots` is  *)
(*                   a plain sequence of slot names.                       *)
(***************************************************************************)
EXTENDS Integers, Sequences, FiniteSets, TLC

VARIABLES
    produces,        \* Simulator._produces        node -> set of fields
    node_graph,      \* Simulator.node_graph       node -> list of downstream nodes
    rule_clears,     \* Simulator._rule_clears     node -> clears of its rule entry
    aggregate_nodes, \* Simulator._aggregate_nodes
    reports_fixed,   \* Simulator._reports_fixed   the Always-Cleared Set
    state,           \* the caller's state dict, mutated in place by step()
    executed_nodes,  \* the caller's history list, mutated in place by step()
    action,          \* the action passed to the most recent step() call
    ok,              \* StepResult["ok"] of the most recent call
    events,          \* StepResult["events"] of the most recent call
    other,           \* the objects of a second caller that uses the same Simulator:
                     \* its state dict, its history list and its most recent call
    traversal,       \* the locals of a running _downstream_nodes call: node, seen,
                     \* q, cur, the position in cur's edge list, and the position
                     \* of the call in the code
    validation       \* scripts/validate_rules.py: the iteration order of the set of
                     \* defined nodes and the result of topo_check_acyclic

cfgvars == <<produces, node_graph, rule_clears, aggregate_nodes, reports_fixed>>
vars == <<produces, node_graph, rule_clears, aggregate_nodes, reports_fixed,
          state, executed_nodes, action, ok, events, other, traversal,
          validation>>

(***************************************************************************)
(* Bounds of the model.                                                    *)
(***************************************************************************)
NumValues == 1      \* number of distinct non-None values a payload can carry

None == "None"
PyTrue == "True"
PyFalse == "False"

NodeNames == {"X", "Y", "Z"}
Fields == {"a", "b", "c"}
PENDING == "_pending_slots"

\* Python values held in state
NoneVal == [t |-> "none", v |-> <<>>]
BoolVal(b) == [t |-> "bool", v |-> b]
IntVal(i) == [t |-> "int", v |-> i]
StrVal(s) == [t |-> "str", v |-> s]
ListVal(l) == [t |-> "list", v |-> l]
DictVal(d) == [t |-> "dict", v |-> d]

ValueNames == <<"1", "2", "3">>
Values == {StrVal(<<ValueNames[i]>>) : i \in 1..NumValues}

EmptyDict == [k \in {} |-> None]

\* dict.get(key, default)
Get(d, k, default) == IF k \in DOMAIN d THEN d[k] ELSE default

\* d[k] = v
Put(d, k, v) == [x \in (DOMAIN d) \cup {k} |-> IF x = k THEN v ELSE d[x]]

\* Python truthiness of a scalar
Truthy(v) == v \notin {None, PyFalse, ""}

(***************************************************************************)
(* Core helpers of Simulator.  They read the configuration variables only. *)
(***************************************************************************)

\* Simulator._write_set: the produces set of the node, empty when unregistered
_write_set(node) == Get(produces, node, {})

\* inner loop of _downstream_nodes: for nxt in node_graph.get(cur, [])
RECURSIVE _scan_edges(_, _, _, _)
_scan_edges(edges, i, seen, q) ==
    IF i > Len(edges) THEN [seen |-> seen, q |-> q]
    ELSE IF edges[i] \notin seen
         THEN _scan_edges(edges, i + 1, seen \cup {edges[i]}, Append(q, edges[i]))
         ELSE _scan_edges(edges, i + 1, seen, q)

\* outer loop of _downstream_nodes: while q: cur = q.pop()
RECURSIVE _worklist(_, _)
_worklist(seen, q) ==
    IF q = <<>> THEN seen
    ELSE LET cur == q[Len(q)]
             rest == SubSeq(q, 1, Len(q) - 1)
             r == _scan_edges(Get(node_graph, cur, <<>>), 1, seen, rest)
         IN _worklist(r.seen, r.q)

\* faulty variant: the direct successors only
M_downstream_nodes_direct(node) == _scan_edges(Get(node_graph, node, <<>>), 1, {}, <<>>).seen \ {node}

\* Simulator._downstream_nodes: seen.discard(node); the list is used as a set
_downstream_nodes(node) == _worklist({}, <<node>>) \ {node}

\* faulty variant: no fallback to the produces set of a node without clears
M_target_clears_rule_only(n) == Get(rule_clears, n, {})

\* faulty variant: a node that is in no table clears every registered field
M_target_clears_unknown_all(n) ==
    LET clears == Get(rule_clears, n, {})
    IN IF clears # {} THEN clears
       ELSE IF n \in DOMAIN produces THEN produces[n]
       ELSE UNION {produces[m] : m \in DOMAIN produces}

\* one iteration of the loop of _clears_full_downstream
_target_clears(n) ==
    LET clears == Get(rule_clears, n, {})
    IN IF clears # {} THEN clears ELSE Get(produces, n, {})

\* faulty variant: the fields of the downstream nodes are always their
\* produces sets, whatever their rule entries say
M_clears_full_downstream_own_rule_only(node) ==
    _target_clears(node)
      \cup UNION {Get(produces, d, {}) : d \in _downstream_nodes(node)}
      \cup reports_fixed

\* Simulator._clears_full_downstream
_clears_full_downstream(node) ==
    LET targets == {node} \cup _downstream_nodes(node)
    IN UNION {_target_clears(n) : n \in targets} \cup reports_fixed

\* faulty variant: the fields of every downstream node are cleared
M_clears_aggregate_all_downstream(node) ==
    Get(produces, node, {})
      \cup UNION {Get(produces, d, {}) : d \in _downstream_nodes(node)}
      \cup reports_fixed

\* faulty variant: the Always-Cleared Set is left out
M_clears_aggregate_no_reports(node) ==
    Get(produces, node, {})
      \cup UNION {Get(produces, d, {}) : d \in _downstream_nodes(node) \cap aggregate_nodes}

\* Simulator._clears_aggregate_only
_clears_aggregate_only(node) ==
    Get(produces, node, {})
      \cup UNION {Get(produces, d, {}) : d \in _downstream_nodes(node) \cap aggregate_nodes}
      \cup reports_fixed

\* faulty variant: the cleared keys are set to None instead of deleted
M_apply_clear_null(st, fields) ==
    [k \in DOMAIN st |-> IF k \in fields THEN NoneVal ELSE st[k]]

\* Simulator._apply_clear: state.pop(f, None) for every f
_apply_clear(st, fields) == [k \in (DOMAIN st) \ fields |-> st[k]]

\* [n for n in executed_nodes if n not in rm]
_filter_out(ex, rm) == SelectSeq(ex, LAMBDA n : n \notin rm)

SeqToSet(s) == {s[i] : i \in 1..Len(s)}

(***************************************************************************)
(* Simulator.step, branch by branch.  Each operator returns the StepResult *)
(* record; state and history are the values left in the caller's objects.  *)
(***************************************************************************)
Result(o, st, ex, ev) ==
    [ok |-> o, updated_state |-> st, executed_nodes |-> ex, events |-> ev]

\* faulty variant: every key of the payload is written too
M_write_fields_payload_keys(st, ws, payload) ==
    [k \in (DOMAIN st) \cup ws \cup DOMAIN payload |->
        IF k \in DOMAIN payload THEN payload[k]
        ELSE IF k \in DOMAIN st THEN st[k] ELSE NoneVal]

\* faulty variant: an existing value wins over the payload
RECURSIVE M_write_fields_old_first(_, _, _)
M_write_fields_old_first(st, ws, payload) ==
    IF ws = {} THEN st
    ELSE LET f == CHOOSE x \in ws : TRUE
         IN M_write_fields_old_first(Put(st, f, Get(st, f, Get(payload, f, NoneVal))),
                                     ws \ {f}, payload)

\* the loop "for f in ws: state[f] = payload.get(f, state.get(f, None))"
RECURSIVE _write_fields(_, _, _)
_write_fields(st, ws, payload) ==
    IF ws = {} THEN st
    ELSE LET f == CHOOSE x \in ws : TRUE
         IN _write_fields(Put(st, f, Get(payload, f, Get(st, f, NoneVal))),
                          ws \ {f}, payload)

\* faulty variant: the node is appended to the history on every call
M_step_execute_always_append(st, ex, act) ==
    LET node == act.node
        ws == _write_set(node)
        st2 == _write_fields(st, ws, Get(act, "payload", EmptyDict))
    IN Result(TRUE, st2, Append(ex, node),
              <<[kind |-> "EXECUTE", node |-> node, wrote |-> Cardinality(ws)]>>)

\* faulty variant: a node already in the history is moved to its end
M_step_execute_move_to_end(st, ex, act) ==
    LET node == act.node
        ws == _write_set(node)
        st2 == _write_fields(st, ws, Get(act, "payload", EmptyDict))
    IN Result(TRUE, st2, Append(_filter_out(ex, {node}), node),
              <<[kind |-> "EXECUTE", node |-> node, wrote |-> Cardinality(ws)]>>)

\* faulty variant: a pending slot is resolved when its field is written
M_step_execute_resolves_pending(st, ex, act) ==
    LET node == act.node
        ws == _write_set(node)
        payload == Get(act, "payload", EmptyDict)
        st2 == _write_fields(st, ws, payload)
        Unwritten(slot) == slot \notin ws
        st3 == IF PENDING \in DOMAIN st2
               THEN Put(st2, PENDING, SelectSeq(st2[PENDING], Unwritten))
               ELSE st2
        ex2 == IF node \notin SeqToSet(ex) THEN Append(ex, node) ELSE ex
    IN Result(TRUE, st3, ex2,
              <<[kind |-> "EXECUTE", node |-> node, wrote |-> Cardinality(ws)]>>)

step_execute(st, ex, act) ==
    LET node == act.node
        ws == _write_set(node)
        payload == Get(act, "payload", EmptyDict)
        st2 == _write_fields(st, ws, payload)
        ex2 == IF node \notin SeqToSet(ex) THEN Append(ex, node) ELSE ex
    IN Result(TRUE, st2, ex2,
              <<[kind |-> "EXECUTE", node |-> node, wrote |-> Cardinality(ws)]>>)

\* faulty variant: every downstream node leaves the history
M_rollback_aggregate_all_nodes(st, ex, act) ==
    LET node == act.node
        fields == _clears_aggregate_only(node)
        rm_nodes == {node} \cup _downstream_nodes(node)
    IN Result(TRUE, _apply_clear(st, fields), _filter_out(ex, rm_nodes),
              <<[kind |-> "ROLLBACK", node |-> node, policy |-> "aggregate_only",
                 cleared |-> Cardinality(fields), removed |-> rm_nodes]>>)

step_rollback_aggregate_only(st, ex, act) ==
    LET node == act.node
        fields == _clears_aggregate_only(node)
        rm_nodes == {node} \cup (_downstream_nodes(node) \cap aggregate_nodes)
    IN Result(TRUE, _apply_clear(st, fields), _filter_out(ex, rm_nodes),
              <<[kind |-> "ROLLBACK", node |-> node, policy |-> "aggregate_only",
                 cleared |-> Cardinality(fields), removed |-> rm_nodes]>>)

\* faulty variant: only the direct downstream nodes leave the history
M_rollback_full_direct_only(st, ex, act) ==
    LET node == act.node
        fields == _clears_full_downstream(node)
        affected_nodes == {node} \cup SeqToSet(Get(node_graph, node, <<>>))
    IN Result(TRUE, _apply_clear(st, fields), _filter_out(ex, affected_nodes),
              <<[kind |-> "ROLLBACK", node |-> node, policy |-> "full_downstream",
                 cleared |-> Cardinality(fields), removed |-> affected_nodes]>>)

step_rollback_full_downstream(st, ex, act) ==
    LET node == act.node
        fields == _clears_full_downstream(node)
        affected_nodes == {node} \cup _downstream_nodes(node)
    IN Result(TRUE, _apply_clear(st, fields), _filter_out(ex, affected_nodes),
              <<[kind |-> "ROLLBACK", node |-> node, policy |-> "full_downstream",
                 cleared |-> Cardinality(fields), removed |-> affected_nodes]>>)

\* "if action.get('include_reports_fixed', True):"
_include_reports_fixed(act) == Truthy(Get(act, "include_reports_fixed", PyTrue))

\* faulty variant: exclude_nodes protects its members from removal
M_rollback_custom_honours_exclude(st, ex, act) ==
    LET node == act.node
        include_nodes == Get(act, "include_nodes", {})
        exclude_nodes == Get(act, "exclude_nodes", {})
        fields0 == Get(act, "fields", {})
        fields1 == fields0 \cup UNION {Get(produces, n, {}) : n \in include_nodes}
        fields == IF _include_reports_fixed(act)
                  THEN fields1 \cup reports_fixed ELSE fields1
        ex2 == IF include_nodes # {}
               THEN _filter_out(ex, include_nodes \ exclude_nodes) ELSE ex
    IN Result(TRUE, _apply_clear(st, fields), ex2,
              <<[kind |-> "ROLLBACK", node |-> node, policy |-> "custom",
                 cleared |-> Cardinality(fields),
                 include_nodes |-> include_nodes, exclude_nodes |-> exclude_nodes]>>)

step_rollback_custom(st, ex, act) ==
    LET node == act.node
        include_nodes == Get(act, "include_nodes", {})
        exclude_nodes == Get(act, "exclude_nodes", {})
        fields0 == Get(act, "fields", {})
        fields1 == fields0 \cup UNION {Get(produces, n, {}) : n \in include_nodes}
        fields == IF _include_reports_fixed(act)
                  THEN fields1 \cup reports_fixed ELSE fields1
        ex2 == IF include_nodes # {} THEN _filter_out(ex, include_nodes) ELSE ex
    IN Result(TRUE, _apply_clear(st, fields), ex2,
              <<[kind |-> "ROLLBACK", node |-> node, policy |-> "custom",
                 cleared |-> Cardinality(fields),
                 include_nodes |-> include_nodes, exclude_nodes |-> exclude_nodes]>>)

\* faulty variant: an unknown policy falls back to full_downstream
M_step_rollback_fallback(st, ex, act) ==
    LET policy == Get(act, "policy", "full_downstream")
    IN IF policy = "aggregate_only" THEN step_rollback_aggregate_only(st, ex, act)
       ELSE IF policy = "custom" THEN step_rollback_custom(st, ex, act)
       ELSE step_rollback_full_downstream(st, ex, act)

\* faulty variant: a rollback without a policy key is rejected
M_step_rollback_policy_required(st, ex, act) ==
    IF "policy" \notin DOMAIN act
    THEN Result(FALSE, st, ex, <<[kind |-> "Unknown policy", policy |-> None]>>)
    ELSE LET policy == act.policy
         IN IF policy = "aggregate_only" THEN step_rollback_aggregate_only(st, ex, act)
            ELSE IF policy = "full_downstream" THEN step_rollback_full_downstream(st, ex, act)
            ELSE IF policy = "custom" THEN step_rollback_custom(st, ex, act)
            ELSE Result(FALSE, st, ex, <<[kind |-> "Unknown policy", policy |-> policy]>>)

step_rollback(st, ex, act) ==
    LET policy == Get(act, "policy", "full_downstream")
    IN IF policy = "aggregate_only" THEN step_rollback_aggregate_only(st, ex, act)
       ELSE IF policy = "full_downstream" THEN step_rollback_full_downstream(st, ex, act)
       ELSE IF policy = "custom" THEN step_rollback_custom(st, ex, act)
       ELSE Result(FALSE, st, ex, <<[kind |-> "Unknown policy", policy |-> policy]>>)

\* list(sorted(pending)): the slot names of the model in string order
SlotOrder == <<"a", "b", "c", "state.tirads_score", "thyroid_nodules_detail">>
RECURSIVE _sorted_from(_, _)
_sorted_from(S, i) ==
    IF i > Len(SlotOrder) THEN <<>>
    ELSE IF SlotOrder[i] \in S THEN <<SlotOrder[i]>> \o _sorted_from(S, i + 1)
         ELSE _sorted_from(S, i + 1)
_sorted(S) == _sorted_from(S, 1)

\* faulty variant: a new slot is appended, the list keeps the order of arrival
M_step_clarify_append(st, ex, act) ==
    LET slot == act.slot
        old == Get(st, PENDING, <<>>)
    IN Result(TRUE,
              Put(st, PENDING, IF slot \in SeqToSet(old) THEN old ELSE Append(old, slot)),
              ex, <<[kind |-> "CLARIFY", slot |-> slot]>>)

step_clarify(st, ex, act) ==
    LET slot == act.slot
        pending == SeqToSet(Get(st, PENDING, <<>>)) \cup {slot}
    IN Result(TRUE, Put(st, PENDING, _sorted(pending)), ex,
              <<[kind |-> "CLARIFY", slot |-> slot]>>)

(***************************************************************************)
(* engine/validators.py.  The validators read state and return a           *)
(* ValidateResult record; messages are the literal texts of the code.      *)
(***************************************************************************)
ValidateResult(errors, warnings) ==
    [passed |-> Len(errors) = 0, errors |-> errors, warnings |-> warnings]

KEY_ALIASES ==
    [k \in {"state.tirads_score", "state.tirads_label", "state.conclusion_text",
            "state.recommendation", "state.thyroid_nodules_quantity"} |->
       CASE k = "state.tirads_score" ->
              <<"state.ti_rads_score", "ti_rads_score",
                "state.thyroid_nodules_detail.nodules.ti_rads_score_overall">>
         [] k = "state.tirads_label" -> <<"state.ti_rads_overall", "ti_rads_overall">>
         [] k = "state.conclusion_text" -> <<"reports.conclusion_text">>
         [] k = "state.recommendation" ->
              <<"reports.recommendation", "reports.follow_up_plan">>
         [] k = "state.thyroid_nodules_quantity" -> <<"thyroid_nodules_quantity">>]

\* the loop "for alt in ...: if alt in state: return state[alt]", then None
RECURSIVE _get_alias(_, _, _)
_get_alias(st, alts, i) ==
    IF i > Len(alts) THEN NoneVal
    ELSE IF alts[i] \in DOMAIN st THEN st[alts[i]]
    ELSE _get_alias(st, alts, i + 1)

_get(st, key) ==
    IF key \in DOMAIN st THEN st[key]
    ELSE _get_alias(st, Get(KEY_ALIASES, key, <<>>), 1)

\* the tuple (None, "", [], {})
EMPTY_VALUES == {NoneVal, StrVal(<<>>), ListVal(<<>>), DictVal(<<>>)}

_present(st, key) == _get(st, key) \notin EMPTY_VALUES

REQUIRED_FOR_REPORT == <<"state.conclusion_text", "state.recommendation">>

MUTEX_GROUPS ==
    << <<"state.conclusion_benign", "state.conclusion_malignant">>,
       <<"state.func_hyper", "state.func_hypo">> >>

\* bool(x)
PyTruthy(x) ==
    CASE x.t = "none" -> FALSE
      [] x.t = "bool" -> x.v
      [] x.t = "int" -> x.v # 0
      [] x.t = "str" -> Len(x.v) > 0
      [] x.t = "list" -> Len(x.v) > 0
      [] x.t = "dict" -> DOMAIN x.v # {}

\* a or b
PyOr(a, b) == IF PyTruthy(a) THEN a ELSE b

WHITESPACE == {" ", "\t", "\n"}
DIGITS == <<"0", "1", "2", "3", "4", "5", "6", "7", "8", "9">>
LOWER == <<"a", "b", "c", "d", "e", "f", "g", "h", "i", "j", "k", "l", "m",
           "n", "o", "p", "q", "r", "s", "t", "u", "v", "w", "x", "y", "z">>
UPPER == <<"A", "B", "C", "D", "E", "F", "G", "H", "I", "J", "K", "L", "M",
           "N", "O", "P", "Q", "R", "S", "T", "U", "V", "W", "X", "Y", "Z">>

IsDigit(c) == \E i \in 1..Len(DIGITS) : DIGITS[i] = c
DigitValue(c) == (CHOOSE i \in 1..Len(DIGITS) : DIGITS[i] = c) - 1

\* str.strip()
RECURSIVE _lstrip(_)
_lstrip(s) == IF s # <<>> /\ Head(s) \in WHITESPACE THEN _lstrip(Tail(s)) ELSE s
RECURSIVE _rstrip(_)
_rstrip(s) ==
    IF s # <<>> /\ s[Len(s)] \in WHITESPACE THEN _rstrip(SubSeq(s, 1, Len(s) - 1))
    ELSE s
_strip(s) == _rstrip(_lstrip(s))

\* str.upper()
_upper_char(c) ==
    IF \E i \in 1..Len(LOWER) : LOWER[i] = c
    THEN UPPER[CHOOSE i \in 1..Len(LOWER) : LOWER[i] = c]
    ELSE c
_upper(s) == [i \in 1..Len(s) |-> _upper_char(s[i])]

\* int(q) of a str: surrounding whitespace and one sign are allowed, then
\* decimal digits only (the characters modelled have no "_" separators)
_int_body(s) ==
    LET u == _strip(s)
    IN IF u # <<>> /\ Head(u) \in {"+", "-"} THEN Tail(u) ELSE u
_int_negative(s) == LET u == _strip(s) IN u # <<>> /\ Head(u) = "-"
RECURSIVE _int_digits(_)
_int_digits(d) ==
    IF d = <<>> THEN 0
    ELSE 10 * _int_digits(SubSeq(d, 1, Len(d) - 1)) + DigitValue(d[Len(d)])

\* int(q) raises (ValueError / TypeError)
_int_raises(q) ==
    CASE q.t \in {"int", "bool"} -> FALSE
      [] q.t = "str" ->
           LET d == _int_body(q.v)
           IN d = <<>> \/ \E i \in 1..Len(d) : ~IsDigit(d[i])
      [] OTHER -> TRUE

\* int(q) when it does not raise
_int(q) ==
    CASE q.t = "int" -> q.v
      [] q.t = "bool" -> IF q.v THEN 1 ELSE 0
      [] q.t = "str" ->
           IF _int_negative(q.v) THEN 0 - _int_digits(_int_body(q.v))
           ELSE _int_digits(_int_body(q.v))

\* faulty variant: only the number 0 counts as zero, a text "0" does not
M_is_no_nodule_number_only(st) ==
    LET q == _get(st, "state.thyroid_nodules_quantity")
    IN q.t = "int" /\ q.v = 0

_is_no_nodule(st) ==
    LET q == _get(st, "state.thyroid_nodules_quantity")
    IN IF q = NoneVal THEN FALSE
       ELSE IF _int_raises(q) THEN FALSE
       ELSE _int(q) = 0

\* the candidate paths (head, tail); head None is state itself
NODULE_CANDIDATES ==
    << <<"state.thyroid_nodules_detail", "nodules">>,
       <<"thyroid_nodules_detail", "nodules">>,
       <<"state", "nodules">>,
       <<"ultrasound", "nodules">>,
       <<None, "nodules">> >>

\* n.get("ti_rads_score") or n.get("tirads_score") or n.get("ti_rads") or n.get("tirads")
_nodule_grade(n) ==
    PyOr(Get(n, "ti_rads_score", NoneVal),
         PyOr(Get(n, "tirads_score", NoneVal),
              PyOr(Get(n, "ti_rads", NoneVal), Get(n, "tirads", NoneVal))))

\* one iteration of "for head, tail in candidates": TRUE when it returns True
_candidate_has_grade(st, head, tail) ==
    LET container == IF head = None THEN DictVal(st) ELSE Get(st, head, NoneVal)
    IN IF container.t # "dict" THEN FALSE
       ELSE LET nods == PyOr(Get(container.v, tail, NoneVal), ListVal(<<>>))
            IN IF nods.t # "list" THEN FALSE
               ELSE \E i \in 1..Len(nods.v) :
                       /\ nods.v[i].t = "dict"
                       /\ _nodule_grade(nods.v[i].v) \notin EMPTY_VALUES

_has_per_nodule_tirads(st) ==
    \E i \in 1..Len(NODULE_CANDIDATES) :
        _candidate_has_grade(st, NODULE_CANDIDATES[i][1], NODULE_CANDIDATES[i][2])

\* str(x); the text of a non-empty list or dict is abridged to its brackets
RECURSIVE _str_digits(_)
_str_digits(n) ==
    IF n < 10 THEN <<DIGITS[n + 1]>>
    ELSE _str_digits(n \div 10) \o <<DIGITS[(n % 10) + 1]>>
_str(x) ==
    CASE x.t = "str" -> x.v
      [] x.t = "int" -> IF x.v < 0 THEN <<"-">> \o _str_digits(0 - x.v)
                        ELSE _str_digits(x.v)
      [] x.t = "bool" -> IF x.v THEN <<"T", "r", "u", "e">>
                         ELSE <<"F", "a", "l", "s", "e">>
      [] x.t = "none" -> <<"N", "o", "n", "e">>
      [] x.t = "list" -> IF Len(x.v) = 0 THEN <<"[", "]">> ELSE <<"[", "...", "]">>
      [] x.t = "dict" -> IF DOMAIN x.v = {} THEN <<"{", "}">> ELSE <<"{", "...", "}">>

_TIRADS_ORDER ==
    { << <<"1">>, 1 >>, << <<"2">>, 2 >>, << <<"3">>, 3 >>,
      << <<"4", "A">>, 4 >>, << <<"4", "B">>, 5 >>, << <<"4", "C">>, 6 >>,
      << <<"5">>, 7 >>,
      << <<"T", "R", "1">>, 1 >>, << <<"T", "R", "2">>, 2 >>,
      << <<"T", "R", "3">>, 3 >>, << <<"T", "R", "4", "A">>, 4 >>,
      << <<"T", "R", "4", "B">>, 5 >>, << <<"T", "R", "4", "C">>, 6 >>,
      << <<"T", "R", "5">>, 7 >> }

\* _TIRADS_ORDER.get(key): an Optional[int] is the empty set (None) or {rank}
_order_get(key) == {e[2] : e \in {d \in _TIRADS_ORDER : d[1] = key}}

HasPrefix(s, p) == Len(s) >= Len(p) /\ SubSeq(s, 1, Len(p)) = p
Drop(s, n) == SubSeq(s, n + 1, Len(s))

\* re.match(r"^(?:TI-?RADS\s*)?(TR)?\s*([1-5])\s*([ABC])?$", s), one part of
\* the pattern after the other; the result is a record with the groups, or
\* no match.  Every optional part that can be taken has to be taken, for no
\* later part accepts its first character.
_match_end(tr, base, suffix, rest) ==
    [matched |-> rest = <<>>, tr |-> tr, base |-> base, suffix |-> suffix]

\* ([ABC])?$
_match_suffix(tr, base, rest) ==
    IF rest # <<>> /\ Head(rest) \in {"A", "B", "C"}
    THEN _match_end(tr, base, <<Head(rest)>>, Tail(rest))
    ELSE _match_end(tr, base, <<>>, rest)

\* ([1-5])\s*
_match_base(tr, rest) ==
    IF rest # <<>> /\ Head(rest) \in {"1", "2", "3", "4", "5"}
    THEN _match_suffix(tr, <<Head(rest)>>, _lstrip(Tail(rest)))
    ELSE [matched |-> FALSE, tr |-> tr, base |-> <<>>, suffix |-> <<>>]

\* (TR)?\s*
_match_tr(rest) ==
    IF HasPrefix(rest, <<"T", "R">>) THEN _match_base(TRUE, _lstrip(Drop(rest, 2)))
    ELSE _match_base(FALSE, _lstrip(rest))

\* ^(?:TI-?RADS\s*)?
_rank_match(s) ==
    IF HasPrefix(s, <<"T", "I", "-", "R", "A", "D", "S">>)
    THEN _match_tr(_lstrip(Drop(s, 7)))
    ELSE IF HasPrefix(s, <<"T", "I", "R", "A", "D", "S">>)
    THEN _match_tr(_lstrip(Drop(s, 6)))
    ELSE _match_tr(s)

\* "if m: ... return _TIRADS_ORDER.get(key)" else "return _TIRADS_ORDER.get(s)"
_rank_lookup(s, m) ==
    IF m.matched
    THEN _order_get((IF m.tr THEN <<"T", "R">> ELSE <<>>) \o m.base \o m.suffix)
    ELSE _order_get(s)

_rank_normalized(s) == _rank_lookup(s, _rank_match(s))

\* _rank(val) for a str val
_rank(val) == _rank_normalized(_strip(_upper(val)))

\* the three warnings of the consistency block, from the two values and ranks
_rank_warnings(score, label, r_score, r_label) ==
    (IF r_score = {} /\ score.t = "str"
     THEN <<"Non-standard tirads_score; check format.">> ELSE <<>>)
    \o (IF r_label = {} /\ label.t = "str"
        THEN <<"Non-standard tirads_label; check format.">> ELSE <<>>)
    \o (IF r_score # {} /\ r_label # {} /\ r_score # r_label
        THEN <<"TI-RADS label not aligned with score (ranks differ).">>
        ELSE <<>>)

\* "_rank(str(x)) if x is not None else None"
_rank_of(x) == IF x # NoneVal THEN _rank(_str(x)) ELSE {}

_compare_grades(score, label) ==
    _rank_warnings(score, label, _rank_of(score), _rank_of(label))

\* the "light consistency" block of both validators (validators.py 138-150
\* and 176-186): the warnings it appends
_consistency_warnings(st) ==
    IF _present(st, "state.tirads_score") /\ _present(st, "state.tirads_label")
    THEN _compare_grades(_get(st, "state.tirads_score"), _get(st, "state.tirads_label"))
    ELSE <<>>

\* faulty variant: only the first missing field is reported
M_missing_required_first_only(st) ==
    IF ~_present(st, REQUIRED_FOR_REPORT[1])
    THEN <<"Missing required: " \o REQUIRED_FOR_REPORT[1]>>
    ELSE IF ~_present(st, REQUIRED_FOR_REPORT[2])
    THEN <<"Missing required: " \o REQUIRED_FOR_REPORT[2]>>
    ELSE <<>>

\* "for k in REQUIRED_FOR_REPORT: if not _present(state, k): errors.append(...)"
_missing_required(st) ==
    LET miss(k) == IF _present(st, k) THEN <<>> ELSE <<"Missing required: " \o k>>
    IN miss(REQUIRED_FOR_REPORT[1]) \o miss(REQUIRED_FOR_REPORT[2])

\* "for group in MUTEX_GROUPS: ... if len(pres) > 1: errors.append(...)"
_mutex_errors(st) ==
    LET err(g) ==
          IF _present(st, g[1]) /\ _present(st, g[2])
          THEN <<"Mutually exclusive fields present: ['" \o g[1] \o "', '"
                 \o g[2] \o "']">>
          ELSE <<>>
    IN err(MUTEX_GROUPS[1]) \o err(MUTEX_GROUPS[2])

validate_state_for_report(st) ==
    LET overall_ok == _present(st, "state.tirads_score")
                        \/ _present(st, "state.tirads_label")
        per_nodule_ok == _has_per_nodule_tirads(st)
        branchErrors ==
          IF _is_no_nodule(st) THEN <<>>
          ELSE IF ~(overall_ok \/ per_nodule_ok)
               THEN <<"Need TI-RADS evidence: either overall (state.tirads_*) or per-nodule ti_rads_score.">>
               ELSE <<>>
        branchWarnings ==
          IF _is_no_nodule(st)
          THEN IF ~(_present(st, "state.thyroid_echo")
                      \/ _present(st, "state.diffuse_lesion_evaluation_result"))
               THEN <<"No nodule: consider adding gland echo or diffuse evaluation.">>
               ELSE <<>>
          ELSE IF (overall_ok \/ per_nodule_ok) /\ per_nodule_ok /\ ~overall_ok
               THEN <<"Per-nodule TI-RADS only (no overall grading).">>
               ELSE <<>>
    IN ValidateResult(_missing_required(st) \o branchErrors \o _mutex_errors(st),
                      branchWarnings \o _consistency_warnings(st))

\* faulty variant: the grading gate accepts an overall grade only
M_validate_node_ready_overall_only(node, st) ==
    IF node = "VIS_REPORT" THEN validate_state_for_report(st)
    ELSE IF node = "TI-RADS"
    THEN IF _is_no_nodule(st)
         THEN ValidateResult(<<>>, <<"TI-RADS skipped: no discrete thyroid nodule.">>)
         ELSE ValidateResult(
                IF ~(_present(st, "state.tirads_score") \/ _present(st, "state.tirads_label"))
                THEN <<"Need TI-RADS: overall (state.tirads_*) or per-nodule ti_rads_score.">>
                ELSE <<>>,
                _consistency_warnings(st))
    ELSE ValidateResult(<<>>, <<>>)

validate_node_ready(node, st) ==
    IF node = "VIS_REPORT" THEN validate_state_for_report(st)
    ELSE IF node = "TI-RADS"
    THEN IF _is_no_nodule(st)
         THEN ValidateResult(<<>>, <<"TI-RADS skipped: no discrete thyroid nodule.">>)
         ELSE LET overall_ok == _present(st, "state.tirads_score")
                                  \/ _present(st, "state.tirads_label")
                  per_nodule_ok == _has_per_nodule_tirads(st)
              IN ValidateResult(
                   IF ~(overall_ok \/ per_nodule_ok)
                   THEN <<"Need TI-RADS: overall (state.tirads_*) or per-nodule ti_rads_score.">>
                   ELSE <<>>,
                   (IF (overall_ok \/ per_nodule_ok) /\ per_nodule_ok /\ ~overall_ok
                    THEN <<"Per-nodule TI-RADS only (no overall grading).">>
                    ELSE <<>>)
                   \o (IF overall_ok THEN _consistency_warnings(st) ELSE <<>>))
    ELSE ValidateResult(<<>>, <<>>)

\* [f"{gate}: {m}" for m in msgs], each wrapped as an event of the given kind
_gate_events(kind, gate, msgs) ==
    [i \in 1..Len(msgs) |-> [kind |-> kind, text |-> gate \o ": " \o msgs[i]]]

\* the events of GENERATE_REPORT: an event is a record whose kind is the
\* prefix of the text ("GENERATE_REPORT validated", "ERROR", "WARNING")
_report_events(passed, tri, vis) ==
    <<[kind |-> "GENERATE_REPORT validated", passed |-> passed]>>
      \o _gate_events("ERROR", "TI-RADS", tri.errors)
      \o _gate_events("ERROR", "VIS_REPORT", vis.errors)
      \o _gate_events("WARNING", "TI-RADS", tri.warnings)
      \o _gate_events("WARNING", "VIS_REPORT", vis.warnings)

\* faulty variant: a warning makes the report fail
M_step_generate_report_warnings_fail(st, ex, act) ==
    LET tri == validate_node_ready("TI-RADS", st)
        vis == validate_node_ready("VIS_REPORT", st)
        passed == tri.passed /\ vis.passed
                    /\ Len(tri.warnings) = 0 /\ Len(vis.warnings) = 0
    IN Result(passed, st, ex, _report_events(passed, tri, vis))

\* faulty variant: a report that passes resolves the pending slots and is
\* recorded in the history
M_step_generate_report_marks_done(st, ex, act) ==
    LET tri == validate_node_ready("TI-RADS", st)
        vis == validate_node_ready("VIS_REPORT", st)
        passed == tri.passed /\ vis.passed
    IN Result(passed,
              IF passed THEN _apply_clear(st, {PENDING}) ELSE st,
              IF passed THEN Append(ex, "GENERATE_REPORT") ELSE ex,
              _report_events(passed, tri, vis))

\* faulty variant: the events are grouped by gate, not by severity
M_step_generate_report_by_gate(st, ex, act) ==
    LET tri == validate_node_ready("TI-RADS", st)
        vis == validate_node_ready("VIS_REPORT", st)
        passed == tri.passed /\ vis.passed
    IN Result(passed, st, ex,
              <<[kind |-> "GENERATE_REPORT validated", passed |-> passed]>>
                \o _gate_events("ERROR", "TI-RADS", tri.errors)
                \o _gate_events("WARNING", "TI-RADS", tri.warnings)
                \o _gate_events("ERROR", "VIS_REPORT", vis.errors)
                \o _gate_events("WARNING", "VIS_REPORT", vis.warnings))

\* faulty variant: the report also needs the grading and report nodes in the
\* execution history
M_step_generate_report_needs_history(st, ex, act) ==
    LET tri == validate_node_ready("TI-RADS", st)
        vis == validate_node_ready("VIS_REPORT", st)
        passed == tri.passed /\ vis.passed /\ {"TI-RADS", "VIS_REPORT"} \subseteq SeqToSet(ex)
    IN Result(passed, st, ex, _report_events(passed, tri, vis))

step_generate_report(st, ex, act) ==
    LET tri == validate_node_ready("TI-RADS", st)
        vis == validate_node_ready("VIS_REPORT", st)
        passed == tri.passed /\ vis.passed
    IN Result(passed, st, ex, _report_events(passed, tri, vis))

step(st, ex, act) ==
    LET at == Get(act, "type", None)
    IN IF at = "EXECUTE" THEN step_execute(st, ex, act)
       ELSE IF at = "ROLLBACK" THEN step_rollback(st, ex, act)
       ELSE IF at = "CLARIFY" THEN step_clarify(st, ex, act)
       ELSE IF at = "GENERATE_REPORT" THEN step_generate_report(st, ex, act)
       ELSE Result(FALSE, st, ex, <<[kind |-> "Unknown action type"]>>)


(***************************************************************************)
(* engine/loader.py: load_simulator replaces the step of the simulator by  *)
(* step_with_validation, which checks the action against the action schema *)
(* first.  The schema document is not part of the sources at hand; its     *)
(* violations are taken from the description of the four action variants   *)
(* and from the two schema tests of tests/test_simulator.py.               *)
(***************************************************************************)
Violation(path, message) == [path |-> path, message |-> message]

\* keys the variant of the action requires and the action lacks
_missing_keys(act, required) ==
    SelectSeq(required, LAMBDA k : k \notin DOMAIN act)

_required_errors(act, required) ==
    LET missing == _missing_keys(act, required)
    IN [i \in 1..Len(missing) |->
          Violation("/", "'" \o missing[i] \o "' is a required property")]

\* validator.iter_errors(action): the violations of the action schema
schema_errors(act) ==
    LET at == Get(act, "type", None)
    IN IF "type" \notin DOMAIN act
       THEN <<Violation("/", "'type' is a required property")>>
       ELSE IF at = "EXECUTE" THEN _required_errors(act, <<"node">>)
       ELSE IF at = "CLARIFY" THEN _required_errors(act, <<"slot">>)
       ELSE IF at = "GENERATE_REPORT" THEN <<>>
       ELSE IF at = "ROLLBACK"
       THEN _required_errors(act, <<"node", "policy">>)
              \o (IF "policy" \in DOMAIN act
                      /\ act.policy \notin {"full_downstream", "aggregate_only", "custom"}
                  THEN <<Violation("/policy", "is not one of the policies")>>
                  ELSE <<>>)
              \o (IF "policy" \in DOMAIN act /\ act.policy = "custom"
                      /\ "include_nodes" \notin DOMAIN act /\ "fields" \notin DOMAIN act
                  THEN <<Violation("/", "is not valid under any of the given schemas")>>
                  ELSE <<>>)
       ELSE <<Violation("/type", "is not one of the action types")>>

\* the single event f"SchemaError: {' | '.join(lines)}"
_schema_error_event(errors) == [kind |-> "SchemaError", lines |-> errors]

\* faulty variant: a missing policy is let through, as the core has a default
M_step_with_validation_policy_optional(st, ex, act) ==
    LET errors == SelectSeq(schema_errors(act),
                            LAMBDA e : e.message # "'policy' is a required property")
    IN IF errors # <<>>
       THEN Result(FALSE, st, ex, <<_schema_error_event(errors)>>)
       ELSE step(st, ex, act)

\* load_simulator.step_with_validation
step_with_validation(st, ex, act) ==
    LET errors == schema_errors(act)
    IN IF errors # <<>>
       THEN Result(FALSE, st, ex, <<_schema_error_event(errors)>>)
       ELSE step(st, ex, act)

(***************************************************************************)
(* Configurations.  A configuration is fixed at construction               *)
(* (Simulator.__init__) and read by every later step.                      *)
(***************************************************************************)
Dict1(k, v) == [x \in {k} |-> v]
Dict2(k1, v1, k2, v2) == [x \in {k1, k2} |-> IF x = k1 THEN v1 ELSE v2]
Dict3(k1, v1, k2, v2, k3, v3) ==
    [x \in {k1, k2, k3} |-> IF x = k1 THEN v1 ELSE IF x = k2 THEN v2 ELSE v3]

\* registries: every node owns one field / X owns two and Y is unregistered
ProducesChoices ==
    { Dict3("X", {"a"}, "Y", {"b"}, "Z", {"c"}),
      Dict2("X", {"a", "b"}, "Z", {"c"}) }

\* graphs: the chain X -> Y -> Z and the fan X -> Y, X -> Z
GraphChoices ==
    { Dict2("X", <<"Y">>, "Y", <<"Z">>),
      Dict1("X", <<"Z", "Y">>) }

\* rule tables: no entry at all / an explicit clears set for Y
RuleChoices == { EmptyDict, Dict1("Y", {"a", "b"}) }

AggregateChoices == { {"Z"} }

ReportsFixedChoices == { {}, {"c"} }

InitConfig ==
    /\ produces \in ProducesChoices
    /\ node_graph \in GraphChoices
    /\ rule_clears \in RuleChoices
    /\ "Y" \in DOMAIN rule_clears => "Y" \in DOMAIN produces
    /\ aggregate_nodes \in AggregateChoices
    /\ reports_fixed \in ReportsFixedChoices

\* the rule validator has not run
NoValidation == [ran |-> FALSE]

\* no _downstream_nodes call is running
NoTraversal == [pc |-> "idle"]

\* the objects of a caller that has not called step() yet
FreshTrajectory ==
    [state |-> EmptyDict, executed_nodes |-> <<>>, action |-> EmptyDict,
     ok |-> TRUE, events |-> <<>>]

\* a fresh trajectory: empty state, empty history, no call made yet
InitTrajectory ==
    /\ state = EmptyDict
    /\ executed_nodes = <<>>
    /\ action = EmptyDict
    /\ ok = TRUE
    /\ events = <<>>
    /\ other = FreshTrajectory
    /\ traversal = NoTraversal
    /\ validation = NoValidation

Init == InitConfig /\ InitTrajectory

(***************************************************************************)
(* Actions passed to step().                                               *)
(***************************************************************************)
\* the empty set and the singletons of S
Small(S) == {{}} \cup {{x} : x \in S}

\* payloads with one key, which may or may not be in the node's write set
Payloads == UNION {[K -> Values \cup {NoneVal}] : K \in Small(Fields) \ {{}}}

ExecuteActions ==
    {[type |-> "EXECUTE", node |-> n] : n \in NodeNames}
      \cup {[type |-> "EXECUTE", node |-> n, payload |-> p] :
               n \in NodeNames, p \in Payloads}

FullDownstreamActions ==
    {[type |-> "ROLLBACK", node |-> n, policy |-> "full_downstream"] : n \in NodeNames}
      \cup {[type |-> "ROLLBACK", node |-> n] : n \in NodeNames}

AggregateOnlyActions ==
    {[type |-> "ROLLBACK", node |-> n, policy |-> "aggregate_only"] : n \in NodeNames}

CustomBase ==
    {[type |-> "ROLLBACK", node |-> "X", policy |-> "custom",
      fields |-> fs, include_nodes |-> inc] :
        fs \in Small({"a", PENDING}), inc \in Small({"X", "Z"})}

WithKey(act, k, v) == [x \in (DOMAIN act) \cup {k} |-> IF x = k THEN v ELSE act[x]]

CustomActions ==
    CustomBase
      \cup {WithKey(a, "include_reports_fixed", v) :
               a \in CustomBase, v \in {PyTrue, PyFalse, None}}
      \cup {WithKey(a, "exclude_nodes", {"Z"}) : a \in CustomBase}

UnknownPolicyActions ==
    {[type |-> "ROLLBACK", node |-> "X", policy |-> p] : p \in {"nonexistent", None}}

ClarifyActions == {[type |-> "CLARIFY", slot |-> s] : s \in {"a"}}

GenerateReportActions == {[type |-> "GENERATE_REPORT"]}

UnknownTypeActions == {[type |-> "NOOP", node |-> "X"], [node |-> "X"]}

(***************************************************************************)
(* One call of step(): the caller's state and history objects hold the     *)
(* mutated values afterwards; action, ok and events are the argument and   *)
(* the StepResult of the call, which the caller holds until it discards    *)
(* them and goes on to choose the next action of the trajectory.           *)
(***************************************************************************)
Idle == action = EmptyDict

\* faulty variant: the clear set computed for a full_downstream rollback is
\* kept in the rule table of the Simulator for later calls
M_Call_caches_clears(act) ==
    /\ Idle
    /\ LET r == step(state, executed_nodes, act)
       IN /\ state' = r.updated_state
          /\ executed_nodes' = r.executed_nodes
          /\ ok' = r.ok
          /\ events' = r.events
    /\ action' = act
    /\ rule_clears' =
          IF Get(act, "type", None) = "ROLLBACK"
               /\ Get(act, "policy", "full_downstream") = "full_downstream"
          THEN Put(rule_clears, act.node, _clears_full_downstream(act.node))
          ELSE rule_clears
    /\ UNCHANGED <<produces, node_graph, aggregate_nodes, reports_fixed, other, traversal, validation>>

Call(act) ==
    /\ Idle
    /\ LET r == step(state, executed_nodes, act)
       IN /\ state' = r.updated_state
          /\ executed_nodes' = r.executed_nodes
          /\ ok' = r.ok
          /\ events' = r.events
    /\ action' = act
    /\ UNCHANGED <<other, traversal, validation>>
    /\ UNCHANGED cfgvars

Execute == \E act \in ExecuteActions : Call(act)
RollbackFullDownstream == \E act \in FullDownstreamActions : Call(act)
RollbackAggregateOnly == \E act \in AggregateOnlyActions : Call(act)
RollbackCustom == \E act \in CustomActions : Call(act)
RollbackUnknownPolicy == \E act \in UnknownPolicyActions : Call(act)
Clarify == \E act \in ClarifyActions : Call(act)
UnknownType == \E act \in UnknownTypeActions : Call(act)

GenerateReport == \E act \in GenerateReportActions : Call(act)

\* the caller drops the result record; state and history stay as step() left them
Discard ==
    /\ ~Idle
    /\ action' = EmptyDict
    /\ ok' = TRUE
    /\ events' = <<>>
    /\ UNCHANGED <<state, executed_nodes, other, traversal, validation>>
    /\ UNCHANGED cfgvars

Next ==
    \/ Execute
    \/ RollbackFullDownstream
    \/ RollbackAggregateOnly
    \/ RollbackCustom
    \/ RollbackUnknownPolicy
    \/ Clarify
    \/ GenerateReport
    \/ UnknownType
    \/ Discard

Spec == Init /\ [][Next]_vars


(***************************************************************************)
(* A second specification for the properties of the closure functions,     *)
(* which quantify over configurations: the configuration is drawn from a   *)
(* wider family, the trajectory starts after every node has been executed  *)
(* once (so that every produced field is in state), and only the two       *)
(* graph-driven rollbacks are applied.                                     *)
(***************************************************************************)
NodeOrder == <<"X", "Y", "Z">>

\* the members of S as a list, in NodeOrder
RECURSIVE ListFrom(_, _)
ListFrom(S, i) ==
    IF i > Len(NodeOrder) THEN <<>>
    ELSE IF NodeOrder[i] \in S THEN <<NodeOrder[i]>> \o ListFrom(S, i + 1)
         ELSE ListFrom(S, i + 1)

\* the edge map {upstream: [downstreams]} of a set of edges
EdgeMap(E) ==
    [n \in {e[1] : e \in E} |-> ListFrom({e[2] : e \in {d \in E : d[1] = n}}, 1)]

\* every acyclic graph over X < Y < Z, and graphs with a cycle through X
WideGraphs ==
    {EdgeMap(E) : E \in SUBSET {<<"X", "Y">>, <<"X", "Z">>, <<"Y", "Z">>}}
      \cup {EdgeMap({<<"X", "Y">>, <<"Y", "X">>, <<"Y", "Z">>}),
            EdgeMap({<<"X", "Y">>, <<"Y", "Z">>, <<"Z", "X">>})}

\* every registry in which each field has exactly one owner, and two
\* registries in which field a has two owners
WideProduces ==
    {[n \in NodeNames |-> {f \in Fields : o[f] = n}] : o \in [Fields -> NodeNames]}
      \cup { Dict3("X", {"a"}, "Y", {"a", "b"}, "Z", {"c"}),
             Dict3("X", {"a"}, "Y", {"b"}, "Z", {"a", "c"}) }

\* no entry at all / an explicit clears set for X and an entry with an empty
\* clears list for Z / an explicit clears set for Y
WideRules == { EmptyDict, Dict2("X", {"c"}, "Z", {}), Dict1("Y", {"a", "b"}) }

WideAggregates == { {}, {"Z"} }

WideReportsFixed == { {}, {"a"} }

\* state and history after EXECUTE X, EXECUTE Y, EXECUTE Z on a fresh trajectory
RECURSIVE _run_all(_, _, _)
_run_all(st, ex, i) ==
    IF i > Len(NodeOrder) THEN Result(TRUE, st, ex, <<>>)
    ELSE LET r == step(st, ex, [type |-> "EXECUTE", node |-> NodeOrder[i]])
         IN _run_all(r.updated_state, r.executed_nodes, i + 1)

InitClosure ==
    /\ produces \in WideProduces
    /\ node_graph \in WideGraphs
    /\ rule_clears \in WideRules
    /\ aggregate_nodes \in WideAggregates
    /\ reports_fixed \in WideReportsFixed
    /\ state = _run_all(EmptyDict, <<>>, 1).updated_state
    /\ executed_nodes = _run_all(EmptyDict, <<>>, 1).executed_nodes
    /\ action = EmptyDict
    /\ ok = TRUE
    /\ events = <<>>
    /\ other = FreshTrajectory
    /\ traversal = NoTraversal
    /\ validation = NoValidation

NextClosure ==
    \/ \E act \in {a \in FullDownstreamActions : "policy" \in DOMAIN a} : Call(act)
    \/ \E act \in AggregateOnlyActions : Call(act)
    \/ Discard

SpecClosure == InitClosure /\ [][NextClosure]_vars

(***************************************************************************)
(* A third specification for the readiness validators, which are pure      *)
(* functions of state: the caller's state is drawn from a family of report *)
(* states (canonical and legacy keys, values of every type the validators  *)
(* distinguish), the history from two lists, and GENERATE_REPORT is        *)
(* applied.                                                                *)
(***************************************************************************)
Chars1(a) == StrVal(<<a>>)
Chars2(a, b) == StrVal(<<a, b>>)
TEXT == Chars1("x")
Key(k, v) == k :> v

ConclusionChoices ==
    { EmptyDict,
      Key("state.conclusion_text", TEXT),
      Key("reports.conclusion_text", TEXT),
      Key("state.conclusion_text", NoneVal) @@ Key("reports.conclusion_text", TEXT) }

RecommendationChoices ==
    { EmptyDict,
      Key("state.recommendation", TEXT),
      Key("reports.follow_up_plan", TEXT),
      Key("reports.recommendation", ListVal(<<>>)) @@ Key("reports.follow_up_plan", TEXT) }

\* the count of nodules, with the gland-level field of the no-nodule branch
QuantityChoices ==
    { EmptyDict,
      Key("state.thyroid_nodules_quantity", IntVal(0)),
      Key("state.thyroid_nodules_quantity", IntVal(0)) @@ Key("state.thyroid_echo", TEXT),
      Key("thyroid_nodules_quantity", StrVal(<<" ", "0">>)),
      Key("state.thyroid_nodules_quantity", IntVal(2)),
      Key("state.thyroid_nodules_quantity", Chars2("n", "o")),
      Key("state.thyroid_nodules_quantity", BoolVal(FALSE)) }

ScoreChoices ==
    { EmptyDict,
      Key("state.tirads_score", Chars2("4", "A")),
      Key("state.tirads_score", IntVal(4)),
      Key("ti_rads_score", StrVal(<<"t", "r", "5">>)) }

LabelChoices ==
    { EmptyDict,
      Key("state.tirads_label", StrVal(<<"T", "I", "-", "R", "A", "D", "S", " ", "4", "a">>)),
      Key("state.tirads_label", Chars2("4", "B")),
      Key("state.tirads_label", Chars1("5")),
      Key("ti_rads_overall", StrVal(<<>>)) }

NoduleChoices ==
    { EmptyDict,
      Key("nodules", ListVal(<<DictVal(Key("ti_rads_score", Chars1("3")))>>)),
      Key("state.thyroid_nodules_detail",
          DictVal(Key("nodules", ListVal(<<TEXT, DictVal(Key("tirads", IntVal(0)))>>)))),
      Key("ultrasound",
          DictVal(Key("nodules", ListVal(<<DictVal(Key("ti_rads_score", IntVal(0)))>>)))) }

MutexChoices ==
    { EmptyDict,
      Key("state.conclusion_benign", BoolVal(TRUE)),
      Key("state.conclusion_benign", BoolVal(TRUE))
        @@ Key("state.conclusion_malignant", BoolVal(FALSE)),
      Key("state.func_hyper", TEXT) @@ Key("state.func_hypo", TEXT) }

\* the rest of the trajectory: pending slots in state, and the history
TrajectoryChoices ==
    { [pending |-> EmptyDict, history |-> <<>>],
      [pending |-> Key(PENDING, <<"a">>), history |-> <<"TI-RADS", "VIS_REPORT">>] }

ReportProduces ==
    Dict2("TI-RADS", {"state.tirads_score", "state.tirads_label"},
          "VIS_REPORT", {"state.conclusion_text", "state.recommendation"})

InitValidate ==
    /\ produces = ReportProduces
    /\ node_graph = Dict1("TI-RADS", <<"VIS_REPORT">>)
    /\ rule_clears = EmptyDict
    /\ aggregate_nodes = {"VIS_REPORT"}
    /\ reports_fixed = {}
    /\ \E c \in ConclusionChoices, r \in RecommendationChoices,
          q \in QuantityChoices, sc \in ScoreChoices, lb \in LabelChoices,
          nd \in NoduleChoices, mx \in MutexChoices, tj \in TrajectoryChoices :
          /\ state = c @@ r @@ q @@ sc @@ lb @@ nd @@ mx @@ tj.pending
          /\ executed_nodes = tj.history
    /\ action = EmptyDict
    /\ ok = TRUE
    /\ events = <<>>
    /\ other = FreshTrajectory
    /\ traversal = NoTraversal
    /\ validation = NoValidation

NextValidate ==
    \/ GenerateReport
    \/ Discard

SpecValidate == InitValidate /\ [][NextValidate]_vars

(***************************************************************************)
(* A fourth specification: the step machine over a report workflow, a      *)
(* registry whose nodes produce the fields the validators read.  The       *)
(* trajectory starts empty; EXECUTE carries the payloads of a run (right   *)
(* values, and a contradictory pair of conclusions).                       *)
(***************************************************************************)
WorkflowNodes == <<"NODULE_EVAL", "TI-RADS", "VIS_REPORT">>

WorkflowProduces ==
    Dict3("NODULE_EVAL", {"state.thyroid_nodules_quantity"},
          "TI-RADS", {"state.tirads_score"},
          "VIS_REPORT", {"state.conclusion_text", "state.recommendation",
                         "state.conclusion_benign", "state.conclusion_malignant"})

WorkflowGraph == Dict2("NODULE_EVAL", <<"TI-RADS">>, "TI-RADS", <<"VIS_REPORT">>)

GradePayload == Key("state.tirads_score", Chars2("4", "A"))

ReportPayload ==
    Key("state.conclusion_text", TEXT) @@ Key("state.recommendation", TEXT)
      @@ Key("state.conclusion_malignant", NoneVal)

WorkflowPayloads ==
    [n \in SeqToSet(WorkflowNodes) |->
       CASE n = "NODULE_EVAL" ->
              { EmptyDict, Key("state.thyroid_nodules_quantity", IntVal(0)) }
         [] n = "TI-RADS" -> { EmptyDict, GradePayload }
         [] n = "VIS_REPORT" ->
              { EmptyDict, ReportPayload,
                Key("state.conclusion_benign", BoolVal(TRUE))
                  @@ Key("state.conclusion_malignant", BoolVal(TRUE)) }]

WorkflowExecuteActions ==
    UNION {{[type |-> "EXECUTE", node |-> n, payload |-> p] : p \in WorkflowPayloads[n]} :
             n \in SeqToSet(WorkflowNodes)}

WorkflowRollbackActions ==
    {[type |-> "ROLLBACK", node |-> n, policy |-> p] :
        n \in SeqToSet(WorkflowNodes), p \in {"full_downstream", "aggregate_only"}}
      \cup {[type |-> "ROLLBACK", node |-> "VIS_REPORT", policy |-> "custom",
             fields |-> fs, include_nodes |-> {}] :
                fs \in {{"state.conclusion_benign"}, {PENDING}}}

WorkflowClarifyActions ==
    {[type |-> "CLARIFY", slot |-> s] :
        s \in {"thyroid_nodules_detail", "state.tirads_score"}}

\* a node name that is in no table of the configuration
UNREGISTERED == "UNREGISTERED"

UnregisteredActions ==
    { [type |-> "EXECUTE", node |-> UNREGISTERED],
      [type |-> "EXECUTE", node |-> UNREGISTERED, payload |-> GradePayload],
      [type |-> "ROLLBACK", node |-> UNREGISTERED, policy |-> "full_downstream"],
      [type |-> "ROLLBACK", node |-> UNREGISTERED, policy |-> "aggregate_only"],
      [type |-> "ROLLBACK", node |-> UNREGISTERED, policy |-> "custom",
       include_nodes |-> {UNREGISTERED}] }

InitWorkflow ==
    /\ produces = WorkflowProduces
    /\ node_graph = WorkflowGraph
    /\ rule_clears = EmptyDict
    /\ aggregate_nodes = {"TI-RADS", "VIS_REPORT"}
    /\ reports_fixed = {"state.conclusion_text"}
    /\ InitTrajectory

WorkflowExecute == \E act \in WorkflowExecuteActions : Call(act)
WorkflowRollback == \E act \in WorkflowRollbackActions : Call(act)
WorkflowClarify == \E act \in WorkflowClarifyActions : Call(act)
WorkflowUnregistered == \E act \in UnregisteredActions : Call(act)

NextWorkflow ==
    \/ WorkflowExecute
    \/ WorkflowRollback
    \/ WorkflowClarify
    \/ WorkflowUnregistered
    \/ GenerateReport
    \/ Discard

SpecWorkflow == InitWorkflow /\ [][NextWorkflow]_vars

(***************************************************************************)
(* A fifth specification: the simulator as load_simulator returns it, with *)
(* every call going through step_with_validation.  The configuration and   *)
(* the well-formed actions are those of the report workflow; the malformed *)
(* actions are the two of the schema tests and one per other violation.    *)
(***************************************************************************)
WellFormedActions ==
    WorkflowExecuteActions \cup WorkflowRollbackActions
      \cup WorkflowClarifyActions \cup GenerateReportActions

MalformedActions ==
    { [type |-> "ROLLBACK", node |-> "NODULE_EVAL"],
      [type |-> "ROLLBACK", node |-> "NODULE_EVAL", policy |-> "custom"],
      [type |-> "ROLLBACK", node |-> "NODULE_EVAL", policy |-> "bad_mode"],
      [type |-> "ROLLBACK", policy |-> "bad_mode"],
      [type |-> "EXECUTE", payload |-> GradePayload],
      [type |-> "CLARIFY"],
      [type |-> "NOOP", node |-> "NODULE_EVAL"],
      [node |-> "NODULE_EVAL"] }

\* one call of the step installed by load_simulator
CallValidated(act) ==
    /\ Idle
    /\ LET r == step_with_validation(state, executed_nodes, act)
       IN /\ state' = r.updated_state
          /\ executed_nodes' = r.executed_nodes
          /\ ok' = r.ok
          /\ events' = r.events
    /\ action' = act
    /\ UNCHANGED <<other, traversal, validation>>
    /\ UNCHANGED cfgvars

StepWellFormed == \E act \in WellFormedActions : CallValidated(act)
StepMalformed == \E act \in MalformedActions : CallValidated(act)

NextLoader ==
    \/ StepWellFormed
    \/ StepMalformed
    \/ Discard

SpecLoader == InitWorkflow /\ [][NextLoader]_vars

(***************************************************************************)
(* A sixth specification: two callers run their own trajectories on one    *)
(* Simulator.  Each owns its state dict and its history list; the          *)
(* configuration is the only thing they share.  Their step() calls         *)
(* interleave in any order.                                                *)
(***************************************************************************)
SharedActions ==
    { [type |-> "EXECUTE", node |-> "X", payload |-> Dict1("a", StrVal(<<"1">>))],
      [type |-> "EXECUTE", node |-> "Y"],
      [type |-> "ROLLBACK", node |-> "X", policy |-> "full_downstream"],
      [type |-> "ROLLBACK", node |-> "Y", policy |-> "aggregate_only"],
      [type |-> "CLARIFY", slot |-> "a"],
      [type |-> "GENERATE_REPORT"] }

InitShared ==
    /\ produces = Dict3("X", {"a"}, "Y", {"b"}, "Z", {"c"})
    /\ node_graph = Dict2("X", <<"Y">>, "Y", <<"Z">>)
    /\ rule_clears = Dict1("Y", {"a", "b"})
    /\ aggregate_nodes = {"Z"}
    /\ reports_fixed = {"c"}
    /\ InitTrajectory

\* one call of step() by the second caller, on its own objects
CallOther(act) ==
    /\ other.action = EmptyDict
    /\ LET r == step(other.state, other.executed_nodes, act)
       IN other' = [state |-> r.updated_state, executed_nodes |-> r.executed_nodes,
                    action |-> act, ok |-> r.ok, events |-> r.events]
    /\ UNCHANGED <<state, executed_nodes, action, ok, events, traversal, validation>>
    /\ UNCHANGED cfgvars

\* the second caller drops its result record
DiscardOther ==
    /\ other.action # EmptyDict
    /\ other' = [other EXCEPT !.action = EmptyDict, !.ok = TRUE, !.events = <<>>]
    /\ UNCHANGED <<state, executed_nodes, action, ok, events, traversal, validation>>
    /\ UNCHANGED cfgvars

StepFirst == \E act \in SharedActions : Call(act)
StepSecond == \E act \in SharedActions : CallOther(act)

NextShared ==
    \/ StepFirst
    \/ StepSecond
    \/ Discard
    \/ DiscardOther

SpecShared == InitShared /\ [][NextShared]_vars

(***************************************************************************)
(* A seventh specification for the traversal as a function of the graph:   *)
(* node_graph is any graph over the three nodes, self-loops and cycles     *)
(* included, with the edge list of each node in any order; all three nodes *)
(* have been executed and the graph rollbacks are applied.                 *)
(***************************************************************************)
\* every list of distinct nodes
EdgeLists ==
    {l \in UNION {[1..k -> NodeNames] : k \in 0..Cardinality(NodeNames)} :
        \A i, j \in 1..Len(l) : i # j => l[i] # l[j]}

AnyGraphs == [NodeNames -> EdgeLists]

InitGraphs ==
    /\ produces = Dict3("X", {"a"}, "Y", {"b"}, "Z", {"c"})
    /\ node_graph \in AnyGraphs
    /\ rule_clears = EmptyDict
    /\ aggregate_nodes = {"Z"}
    /\ reports_fixed = {}
    /\ state = _run_all(EmptyDict, <<>>, 1).updated_state
    /\ executed_nodes = _run_all(EmptyDict, <<>>, 1).executed_nodes
    /\ action = EmptyDict
    /\ ok = TRUE
    /\ events = <<>>
    /\ other = FreshTrajectory
    /\ traversal = NoTraversal
    /\ validation = NoValidation

NextGraphs ==
    \/ RollbackFullDownstream
    \/ RollbackAggregateOnly

SpecGraphs == InitGraphs /\ [][NextGraphs]_vars

(***************************************************************************)
(* An eighth specification runs the loop of _downstream_nodes one          *)
(* statement at a time inside a graph rollback.  step() calls              *)
(* _downstream_nodes twice under either graph policy (lines 116 and 118,   *)
(* lines 108 and 111); the step returns after the second call.  The        *)
(* variable traversal holds the locals of the running call, and counts how *)
(* often each node has been put on the worklist.                           *)
(***************************************************************************)
\* every graph over the three nodes, self-loops and cycles included, and a
\* graph with its edge lists out of node order
LoopGraphs ==
    {EdgeMap(E) : E \in SUBSET (NodeNames \X NodeNames)}
      \cup {Dict3("X", <<"Z", "Y", "X">>, "Y", <<"Z", "Y">>, "Z", <<"Y">>)}

InitTraverse ==
    /\ produces = Dict3("X", {"a"}, "Y", {"b"}, "Z", {"c"})
    /\ node_graph \in LoopGraphs
    /\ rule_clears = EmptyDict
    /\ aggregate_nodes = {"Z"}
    /\ reports_fixed = {}
    /\ state = _run_all(EmptyDict, <<>>, 1).updated_state
    /\ executed_nodes = _run_all(EmptyDict, <<>>, 1).executed_nodes
    /\ action = EmptyDict
    /\ ok = TRUE
    /\ events = <<>>
    /\ other = FreshTrajectory
    /\ traversal = NoTraversal
    /\ validation = NoValidation

\* seen, q = set(), [node]; left counts the calls step() still makes
_downstream_nodes_enter(node, left) ==
    [pc |-> "while", node |-> node, seen |-> {}, q |-> <<node>>, cur |-> None, i |-> 0,
     pushes |-> [m \in NodeNames |-> IF m = node THEN 1 ELSE 0], left |-> left]

\* step() of a graph rollback reaches its first _downstream_nodes call
EnterRollback(act) ==
    /\ Idle
    /\ traversal.pc = "idle"
    /\ action' = act
    /\ traversal' = _downstream_nodes_enter(act.node, 2)
    /\ UNCHANGED <<state, executed_nodes, ok, events, other, validation>>
    /\ UNCHANGED cfgvars

\* while q: cur = q.pop()
_downstream_nodes_pop ==
    /\ traversal.pc = "while"
    /\ traversal.q # <<>>
    /\ traversal' = [traversal EXCEPT !.pc = "for",
                                      !.cur = traversal.q[Len(traversal.q)],
                                      !.q = SubSeq(traversal.q, 1, Len(traversal.q) - 1),
                                      !.i = 1]
    /\ UNCHANGED <<state, executed_nodes, action, ok, events, other, validation>>
    /\ UNCHANGED cfgvars

\* faulty variant: nxt is put on the worklist whether seen or not
M_downstream_nodes_edge_no_seen ==
    /\ traversal.pc = "for"
    /\ traversal.i <= Len(Get(node_graph, traversal.cur, <<>>))
    /\ LET nxt == Get(node_graph, traversal.cur, <<>>)[traversal.i]
       IN traversal' = [traversal EXCEPT !.seen = @ \cup {nxt},
                                         !.q = Append(@, nxt),
                                         !.pushes[nxt] = @ + 1,
                                         !.i = @ + 1]
    /\ UNCHANGED <<state, executed_nodes, action, ok, events, other, validation>>
    /\ UNCHANGED cfgvars

\* one iteration of: for nxt in node_graph.get(cur, []): if nxt not in seen: ...
_downstream_nodes_edge ==
    /\ traversal.pc = "for"
    /\ traversal.i <= Len(Get(node_graph, traversal.cur, <<>>))
    /\ LET nxt == Get(node_graph, traversal.cur, <<>>)[traversal.i]
       IN traversal' = IF nxt \notin traversal.seen
                       THEN [traversal EXCEPT !.seen = @ \cup {nxt},
                                              !.q = Append(@, nxt),
                                              !.pushes[nxt] = @ + 1,
                                              !.i = @ + 1]
                       ELSE [traversal EXCEPT !.i = @ + 1]
    /\ UNCHANGED <<state, executed_nodes, action, ok, events, other, validation>>
    /\ UNCHANGED cfgvars

\* the edge list of cur is exhausted: back to the test of the while loop
_downstream_nodes_for_end ==
    /\ traversal.pc = "for"
    /\ traversal.i > Len(Get(node_graph, traversal.cur, <<>>))
    /\ traversal' = [traversal EXCEPT !.pc = "while"]
    /\ UNCHANGED <<state, executed_nodes, action, ok, events, other, validation>>
    /\ UNCHANGED cfgvars

\* q is empty: the first call returns and step() goes on to its second call
_downstream_nodes_return ==
    /\ traversal.pc = "while"
    /\ traversal.q = <<>>
    /\ traversal.left > 1
    /\ traversal' = _downstream_nodes_enter(traversal.node, traversal.left - 1)
    /\ UNCHANGED <<state, executed_nodes, action, ok, events, other, validation>>
    /\ UNCHANGED cfgvars

\* q is empty in the last call: step() applies the rollback and returns
ReturnRollback ==
    /\ traversal.pc = "while"
    /\ traversal.q = <<>>
    /\ traversal.left = 1
    /\ LET r == step(state, executed_nodes, action)
       IN /\ state' = r.updated_state
          /\ executed_nodes' = r.executed_nodes
          /\ ok' = r.ok
          /\ events' = r.events
    /\ traversal' = NoTraversal
    /\ UNCHANGED <<action, other, validation>>
    /\ UNCHANGED cfgvars

EnterFullDownstream == \E act \in FullDownstreamActions : EnterRollback(act)
EnterAggregateOnly == \E act \in AggregateOnlyActions : EnterRollback(act)

TraverseLoop ==
    \/ _downstream_nodes_pop
    \/ _downstream_nodes_edge
    \/ _downstream_nodes_for_end
    \/ _downstream_nodes_return

NextTraverse ==
    \/ EnterFullDownstream
    \/ EnterAggregateOnly
    \/ TraverseLoop
    \/ ReturnRollback

\* the guard of ReturnRollback
ReturnReady ==
    /\ traversal.pc = "while"
    /\ traversal.q = <<>>
    /\ traversal.left = 1

\* The loop and the rest of step() are straight-line code of the calling
\* thread: a statement that can run does run.  The weak fairness of
\* ReturnRollback is written out, with its guard where WF has ENABLED.
SpecTraverse ==
    /\ InitTraverse
    /\ [][NextTraverse]_vars
    /\ WF_vars(TraverseLoop)
    /\ ([]<>(~ReturnReady) \/ []<><<ReturnRollback>>_vars)

(***************************************************************************)
(* The rule validator (scripts/validate_rules.py) and a ninth              *)
(* specification for it.  The validator reads the defined nodes from the   *)
(* registry and the edge map from the graph file, and runs                 *)
(* topo_check_acyclic on them whether or not every node of the edge map is *)
(* defined (main, lines 186-188).  The set of defined nodes is iterated in *)
(* an order the program does not fix; the model takes it as an input.      *)
(***************************************************************************)
\* for a, outs in edges_map.items(): for b in outs: in_deg[b] = in_deg.get(b, 0) + 1
_in_deg(edges_map) ==
    [n \in NodeNames |->
        Cardinality({e \in UNION {{a} \X DOMAIN edges_map[a] : a \in DOMAIN edges_map} :
                        edges_map[e[1]][e[2]] = n})]

\* q = deque([n for n, d in in_deg.items() if d == 0]); a key that is not a
\* defined node is the target of an edge and has a positive count
RECURSIVE _zero_in_deg(_, _, _)
_zero_in_deg(nodes, i, in_deg) ==
    IF i > Len(nodes) THEN <<>>
    ELSE IF in_deg[nodes[i]] = 0
         THEN <<nodes[i]>> \o _zero_in_deg(nodes, i + 1, in_deg)
         ELSE _zero_in_deg(nodes, i + 1, in_deg)

\* for v in edges_map.get(u, []): in_deg[v] -= 1; if in_deg[v] == 0: q.append(v)
RECURSIVE _topo_edges(_, _, _, _)
_topo_edges(outs, i, in_deg, q) ==
    IF i > Len(outs) THEN [in_deg |-> in_deg, q |-> q]
    ELSE _topo_edges(outs, i + 1,
                     [in_deg EXCEPT ![outs[i]] = @ - 1],
                     IF in_deg[outs[i]] - 1 = 0 THEN Append(q, outs[i]) ELSE q)

\* while q: u = q.popleft(); order.append(u); ...
RECURSIVE _topo_while(_, _, _, _)
_topo_while(q, order, in_deg, edges_map) ==
    IF q = <<>> THEN order
    ELSE _topo_while(_topo_edges(Get(edges_map, Head(q), <<>>), 1, in_deg, Tail(q)).q,
                     Append(order, Head(q)),
                     _topo_edges(Get(edges_map, Head(q), <<>>), 1, in_deg, Tail(q)).in_deg,
                     edges_map)

\* topo_check_acyclic; nodes is the set of defined nodes as the list of its
\* members in iteration order
topo_check_acyclic(nodes, edges_map) ==
    [ok_dag |-> Len(_topo_while(_zero_in_deg(nodes, 1, _in_deg(edges_map)), <<>>,
                                _in_deg(edges_map), edges_map)) = Len(nodes),
     topo |-> _topo_while(_zero_in_deg(nodes, 1, _in_deg(edges_map)), <<>>,
                          _in_deg(edges_map), edges_map)]

\* every edge map over the three node names, and one that lists an edge twice
RuleGraphs ==
    {EdgeMap(E) : E \in SUBSET (NodeNames \X NodeNames)}
      \cup {Dict1("X", <<"Y", "Y">>)}

\* the registry defines any subset of the node names
InitRules ==
    /\ produces \in {[n \in S |-> {}] : S \in SUBSET NodeNames}
    /\ node_graph \in RuleGraphs
    /\ rule_clears = EmptyDict
    /\ aggregate_nodes = {}
    /\ reports_fixed = {}
    /\ InitTrajectory

\* main: nodes_defined, missing = ensure_nodes_exist(...);
\* ok_dag, topo = topo_check_acyclic(nodes_defined, edges_map)
ValidateRules ==
    /\ ~validation.ran
    /\ \E nodes \in EdgeLists :
          /\ SeqToSet(nodes) = DOMAIN produces
          /\ validation' = [ran |-> TRUE, nodes |-> nodes,
                            ok_dag |-> topo_check_acyclic(nodes, node_graph).ok_dag,
                            topo |-> topo_check_acyclic(nodes, node_graph).topo]
    /\ UNCHANGED <<state, executed_nodes, action, ok, events, other, traversal>>
    /\ UNCHANGED cfgvars

NextRules == ValidateRules

SpecRules == InitRules /\ [][NextRules]_vars

(***************************************************************************)
(* A tenth specification: trajectories that start empty and consist of     *)
(* EXECUTE and the two graph rollbacks only, on the configurations of Spec *)
(* and on a registry in which field a has two owners.                      *)
(***************************************************************************)
InitHistory ==
    /\ produces \in ProducesChoices \cup {Dict3("X", {"a"}, "Y", {"a", "b"}, "Z", {"c"})}
    /\ node_graph \in GraphChoices
    /\ rule_clears \in RuleChoices
    /\ "Y" \in DOMAIN rule_clears => "Y" \in DOMAIN produces
    /\ aggregate_nodes \in AggregateChoices
    /\ reports_fixed \in ReportsFixedChoices
    /\ InitTrajectory

NextHistory ==
    \/ Execute
    \/ RollbackFullDownstream
    \/ RollbackAggregateOnly
    \/ Discard

SpecHistory == InitHistory /\ [][NextHistory]_vars

(***************************************************************************)
(* Vocabulary of the properties, defined from the configuration alone      *)
(* (not from the traversal code above).                                    *)
(***************************************************************************)
ActType(a) == Get(a, "type", None)
IsExecute(a) == ActType(a) = "EXECUTE"
IsRollbackWith(a, policy) ==
    /\ ActType(a) = "ROLLBACK"
    /\ "policy" \in DOMAIN a
    /\ a.policy = policy

Produces(n) == IF n \in DOMAIN produces THEN produces[n] ELSE {}
Succ(n) == IF n \in DOMAIN node_graph THEN SeqToSet(node_graph[n]) ELSE {}

\* nodes reachable from the set S by at most k further edges
RECURSIVE ReachWithin(_, _)
ReachWithin(S, k) ==
    IF k = 0 THEN S
    ELSE ReachWithin(S \cup UNION {Succ(m) : m \in S}, k - 1)

\* nodes reachable from n by one or more edges
Reachable(n) == ReachWithin(Succ(n), Cardinality(NodeNames))

\* downstream_of(n): reachable from n, n itself excluded
Downstream(n) == Reachable(n) \ {n}

\* h2 keeps members of h only, in the order they have in h (h has no duplicates)
KeepsOrder(h, h2) ==
    /\ SeqToSet(h2) \subseteq SeqToSet(h)
    /\ \A i, j \in 1..Len(h2) :
          i < j => \E p, q \in 1..Len(h) : p < q /\ h[p] = h2[i] /\ h[q] = h2[j]

Occurrences(h, n) == Cardinality({i \in 1..Len(h) : h[i] = n})

\* h2 is h with exactly the members of rm removed
RemovedExactly(h, h2, rm) ==
    /\ SeqToSet(h2) \cap rm = {}
    /\ \A n \in SeqToSet(h) \ rm : Occurrences(h2, n) = 1
    /\ KeepsOrder(h, h2)

\* st2 is st with exactly the keys of C deleted and every other key untouched
DeletedExactly(st, st2, C) ==
    /\ DOMAIN st2 = (DOMAIN st) \ C
    /\ \A k \in DOMAIN st2 : st2[k] = st[k]

(***************************************************************************)
(* C1: EXECUTE of node N sets every field f of produces(N) to payload[f]   *)
(* if the payload has key f, else to the value f already had, else to      *)
(* None (key present); no other key is added, removed or changed; N is in  *)
(* the history afterwards and ok is true.                                  *)
(***************************************************************************)
C1_ExecuteWritesExactlyProduces ==
    [][IsExecute(action') =>
         LET N == action'.node
             payload == IF "payload" \in DOMAIN action' THEN action'.payload
                        ELSE EmptyDict
         IN /\ DOMAIN state' = (DOMAIN state) \cup Produces(N)
            /\ \A f \in Produces(N) :
                  state'[f] = IF f \in DOMAIN payload THEN payload[f]
                              ELSE IF f \in DOMAIN state THEN state[f]
                              ELSE NoneVal
            /\ \A k \in (DOMAIN state) \ Produces(N) : state'[k] = state[k]
            /\ N \in SeqToSet(executed_nodes')
            /\ ok' = TRUE]_vars

\* Scenario A: X produces {a, b}, payload {a: "1"} on the empty state
C1_Witness ==
    /\ IsExecute(action)
    /\ action.node = "X"
    /\ Produces("X") = {"a", "b"}
    /\ "payload" \in DOMAIN action
    /\ action.payload = Dict1("a", StrVal(<<"1">>))
    /\ state = Dict2("a", StrVal(<<"1">>), "b", NoneVal)
    /\ executed_nodes = <<"X">>
    /\ ok = TRUE

(***************************************************************************)
(* C2: after ROLLBACK of N with policy full_downstream the history holds   *)
(* no member of {N} \cup downstream_of(N), and every other node that was   *)
(* in it is still there, exactly once, in its original relative order.     *)
(***************************************************************************)
C2_FullDownstreamHistory ==
    [][IsRollbackWith(action', "full_downstream") =>
         LET N == action'.node
         IN RemovedExactly(executed_nodes, executed_nodes', {N} \cup Downstream(N))]_vars

\* rollback of Y in the chain X -> Y -> Z with X still in the history
C2_Witness ==
    /\ IsRollbackWith(action, "full_downstream")
    /\ action.node = "Y"
    /\ Downstream("Y") = {"Z"}
    /\ executed_nodes = <<"X">>
    /\ events[1].removed = {"Y", "Z"}

(***************************************************************************)
(* C3: after ROLLBACK of N with policy full_downstream every field of      *)
(* clears_full_downstream(N) is absent from state as a key, and every key  *)
(* outside that set is still present with its previous value.              *)
(***************************************************************************)
ClearsOf(n) ==
    IF n \in DOMAIN rule_clears /\ rule_clears[n] # {} THEN rule_clears[n]
    ELSE Produces(n)

ClearsFullDownstream(N) ==
    UNION {ClearsOf(m) : m \in {N} \cup Downstream(N)} \cup reports_fixed

C3_FullDownstreamDeletesKeys ==
    [][IsRollbackWith(action', "full_downstream") =>
         LET C == ClearsFullDownstream(action'.node)
         IN /\ DeletedExactly(state, state', C)
            /\ \A f \in C : f \notin DOMAIN state']_vars

\* a rollback of X that cleared fields and left the pending-slots key alone
C3_Witness ==
    /\ IsRollbackWith(action, "full_downstream")
    /\ action.node = "X"
    /\ events[1].cleared = Cardinality(Fields)
    /\ DOMAIN state = {PENDING}


(***************************************************************************)
(* C4: for every configuration with an acyclic graph and every node N,     *)
(* clears_full_downstream(N) contains produces(N), produces(D) for every   *)
(* node D reachable from N, and the Always-Cleared Set; so a               *)
(* full_downstream rollback of N leaves none of those fields in state.     *)
(* As stated the property fails: a rule entry with a non-empty clears set  *)
(* replaces the produces set of its node instead of adding to it.          *)
(***************************************************************************)
Acyclic == \A n \in NodeNames : n \notin Reachable(n)

Required(N) ==
    Produces(N) \cup UNION {Produces(D) : D \in Reachable(N)} \cup reports_fixed

\* checked at every full_downstream rollback; every node is rolled back from
\* every state in which a call can be made
FullDownstreamCovers ==
    IsRollbackWith(action', "full_downstream") =>
        LET N == action'.node
        IN /\ Required(N) \subseteq _clears_full_downstream(N)
           /\ (DOMAIN state') \cap Required(N) = {}

C4_Original == [][Acyclic => FullDownstreamCovers]_vars

\* every non-empty clears set of the rule table contains the produces set of
\* its own node
RulesCoverOwnWrites ==
    \A n \in DOMAIN rule_clears :
        rule_clears[n] = {} \/ Produces(n) \subseteq rule_clears[n]

\* C4 as amended: the same property for the configurations whose rule table
\* satisfies RulesCoverOwnWrites
C4_FullDownstreamSuperset ==
    [][(Acyclic /\ RulesCoverOwnWrites) => FullDownstreamCovers]_vars

\* X rolled back in a chain whose rule entry for Y covers Y's own field
C4_Witness ==
    /\ IsRollbackWith(action, "full_downstream")
    /\ action.node = "X"
    /\ Acyclic
    /\ Reachable("X") = {"Y", "Z"}
    /\ rule_clears = Dict1("Y", {"a", "b"})
    /\ Produces("Y") = {"b"}
    /\ Produces("X") = {"a"}
    /\ Produces("Z") = {"c"}
    /\ RulesCoverOwnWrites
    /\ state = EmptyDict

(***************************************************************************)
(* C7: for every configuration with unique field ownership and every node  *)
(* N, clears_aggregate_only(N) contains no field produced by a             *)
(* non-aggregate node downstream of N; so an aggregate_only rollback never *)
(* deletes a field owned by a non-aggregate downstream node.               *)
(* As stated the property fails: the Always-Cleared Set is part of the     *)
(* clear set whoever owns its fields.                                      *)
(***************************************************************************)
UniqueOwnership ==
    \A n, m \in DOMAIN produces : n # m => produces[n] \cap produces[m] = {}

NonAggregateDownstreamFields(N) ==
    UNION {Produces(D) : D \in Downstream(N) \ aggregate_nodes}

\* no field of Protected(N) is in the clear set of N, and none is deleted by an
\* aggregate_only rollback of N; checked at every aggregate_only rollback
AggregateOnlySpares(Protected(_)) ==
    IsRollbackWith(action', "aggregate_only") =>
        LET N == action'.node
        IN /\ _clears_aggregate_only(N) \cap Protected(N) = {}
           /\ \A f \in Protected(N) \cap DOMAIN state :
                 f \in DOMAIN state' /\ state'[f] = state[f]

C7_Original ==
    [][UniqueOwnership => AggregateOnlySpares(NonAggregateDownstreamFields)]_vars

NonAggregateDownstreamFieldsNotFixed(N) ==
    NonAggregateDownstreamFields(N) \ reports_fixed

\* C7 as amended: the same property for the fields of non-aggregate downstream
\* nodes that are not in the Always-Cleared Set
C7_AggregateOnlyNonLeak ==
    [][UniqueOwnership =>
         AggregateOnlySpares(NonAggregateDownstreamFieldsNotFixed)]_vars

\* X rolled back: the aggregate Z loses c, the non-aggregate Y keeps b
C7_Witness ==
    /\ IsRollbackWith(action, "aggregate_only")
    /\ action.node = "X"
    /\ UniqueOwnership
    /\ aggregate_nodes = {"Z"}
    /\ Downstream("X") = {"Y", "Z"}
    /\ Produces("Y") = {"b"}
    /\ Produces("Z") = {"c"}
    /\ DOMAIN state = {"b"}

(***************************************************************************)
(* C5: after ROLLBACK of N with policy aggregate_only the history holds no *)
(* member of {N} \cup (downstream_of(N) \cap aggregate-nodes), and every   *)
(* other node that was in it (non-aggregate downstream nodes included) is  *)
(* still there in its original relative order.                             *)
(***************************************************************************)
AggregateAffected(N) == {N} \cup (Downstream(N) \cap aggregate_nodes)

C5_AggregateOnlyHistory ==
    [][IsRollbackWith(action', "aggregate_only") =>
         RemovedExactly(executed_nodes, executed_nodes',
                        AggregateAffected(action'.node))]_vars

\* Scenario B: X rolled back, the non-aggregate downstream node Y stays
C5_Witness ==
    /\ IsRollbackWith(action, "aggregate_only")
    /\ action.node = "X"
    /\ Downstream("X") = {"Y", "Z"}
    /\ aggregate_nodes = {"Z"}
    /\ events[1].removed = {"X", "Z"}
    /\ executed_nodes = <<"Y">>

(***************************************************************************)
(* C6: after ROLLBACK of N with policy aggregate_only the keys removed     *)
(* from state are exactly those of produces(N), of produces(A) for every   *)
(* aggregate node A reachable from N, and of the Always-Cleared Set; every *)
(* other key keeps its previous value.                                     *)
(***************************************************************************)
ClearsAggregateOnly(N) ==
    Produces(N)
      \cup UNION {Produces(A) : A \in Reachable(N) \cap aggregate_nodes}
      \cup reports_fixed

C6_AggregateOnlyDeletesKeys ==
    [][IsRollbackWith(action', "aggregate_only") =>
         DeletedExactly(state, state', ClearsAggregateOnly(action'.node))]_vars

\* X rolled back where Y owns b and Z owns c: only Y's field is left
C6_Witness ==
    /\ IsRollbackWith(action, "aggregate_only")
    /\ action.node = "X"
    /\ Produces("Y") = {"b"}
    /\ "Y" \in Downstream("X")
    /\ ClearsAggregateOnly("X") = {"a", "c"}
    /\ DOMAIN state = {"b"}
    /\ state["b"] = StrVal(<<"1">>)

(***************************************************************************)
(* C9: ROLLBACK with policy custom removes from the history exactly the    *)
(* nodes listed in include_nodes: the node named in the action stays       *)
(* unless it is also in include_nodes, exclude_nodes neither protects nor  *)
(* removes a node, and the remaining history keeps its relative order.     *)
(***************************************************************************)
IncludeNodes(a) == IF "include_nodes" \in DOMAIN a THEN a.include_nodes ELSE {}
ExcludeNodes(a) == IF "exclude_nodes" \in DOMAIN a THEN a.exclude_nodes ELSE {}
FieldsOf(a) == IF "fields" \in DOMAIN a THEN a.fields ELSE {}

KnownPolicies == {"full_downstream", "aggregate_only", "custom"}
KnownTypes == {"EXECUTE", "ROLLBACK", "CLARIFY", "GENERATE_REPORT"}

IsUnknownPolicy(a) ==
    /\ ActType(a) = "ROLLBACK"
    /\ "policy" \in DOMAIN a
    /\ a.policy \notin KnownPolicies

IsUnknownType(a) == a # EmptyDict /\ ActType(a) \notin KnownTypes

C10_UnknownActionRejected ==
    [][/\ IsUnknownPolicy(action') =>
            /\ ok' = FALSE
            /\ events' = <<[kind |-> "Unknown policy", policy |-> action'.policy]>>
            /\ state' = state
            /\ executed_nodes' = executed_nodes
       /\ IsUnknownType(action') =>
            /\ ok' = FALSE
            /\ events' = <<[kind |-> "Unknown action type"]>>
            /\ state' = state
            /\ executed_nodes' = executed_nodes]_vars

\* Scenario D on a trajectory that already holds fields and history
C10_Witness ==
    /\ IsUnknownPolicy(action)
    /\ action.policy = "nonexistent"
    /\ ok = FALSE
    /\ events = <<[kind |-> "Unknown policy", policy |-> "nonexistent"]>>
    /\ DOMAIN state = Fields
    /\ Len(executed_nodes) = Cardinality(NodeNames)


(***************************************************************************)
(* C8: ROLLBACK with policy custom deletes from state exactly the keys of  *)
(* fields, of produces(n) for every n in include_nodes, and of the         *)
(* Always-Cleared Set unless include_reports_fixed is explicitly false;    *)
(* exclude_nodes has no influence; all other keys keep their values and    *)
(* ok is true.                                                             *)
(***************************************************************************)
ExplicitlyFalse(a, k) == k \in DOMAIN a /\ a[k] = PyFalse

CustomClears(a) ==
    FieldsOf(a)
      \cup UNION {Produces(n) : n \in IncludeNodes(a)}
      \cup (IF ExplicitlyFalse(a, "include_reports_fixed") THEN {} ELSE reports_fixed)

C8_CustomDeletesKeys ==
    [][IsRollbackWith(action', "custom") =>
         /\ DeletedExactly(state, state', CustomClears(action'))
         /\ ok' = TRUE]_vars


(***************************************************************************)
(* C11: starting from a history without duplicates, after any sequence of  *)
(* step calls (EXECUTE, ROLLBACK under any policy, CLARIFY,                *)
(* GENERATE_REPORT, rejected actions) every node name appears at most once *)
(* in executed_nodes.                                                      *)
(***************************************************************************)
C11_HistoryUnique ==
    \A i, j \in 1..Len(executed_nodes) :
        i # j => executed_nodes[i] # executed_nodes[j]

\* X is executed again after Y and Z were: the history still has three entries
C11_Witness ==
    /\ IsExecute(action)
    /\ action.node = "X"
    /\ executed_nodes = <<"X", "Y", "Z">>

(***************************************************************************)
(* C12: EXECUTE of a node that is already in the history leaves the        *)
(* history unchanged (same length, same order, the node at its original    *)
(* position), and writes the node's fields again: every field of           *)
(* produces(N) is a key afterwards, with the payload's value where the     *)
(* payload supplies one.                                                   *)
(***************************************************************************)
C12_ExecuteIdempotentOnHistory ==
    [][(IsExecute(action') /\ action'.node \in SeqToSet(executed_nodes)) =>
         LET N == action'.node
             payload == IF "payload" \in DOMAIN action' THEN action'.payload
                        ELSE EmptyDict
         IN /\ executed_nodes' = executed_nodes
            /\ \A f \in Produces(N) :
                  /\ f \in DOMAIN state'
                  /\ f \in DOMAIN payload => state'[f] = payload[f]]_vars

\* X, executed before Y, is executed again with a payload for its field a
C12_Witness ==
    /\ IsExecute(action)
    /\ action.node = "X"
    /\ "payload" \in DOMAIN action
    /\ "a" \in DOMAIN action.payload
    /\ action.payload["a"] # NoneVal
    /\ state["a"] = action.payload["a"]
    /\ executed_nodes = <<"X", "Y">>

(***************************************************************************)
(* C13: starting from the empty state, every key of state is a field of    *)
(* produces(N) for a node N that an earlier EXECUTE executed, or the       *)
(* control key _pending_slots: a key enters state only in an EXECUTE of a  *)
(* node that produces it (or is _pending_slots), so every key present is   *)
(* produced by some node or is _pending_slots.                             *)
(***************************************************************************)
C13_StateProvenance ==
    [][/\ \A k \in (DOMAIN state') \ DOMAIN state :
             \/ k = PENDING
             \/ IsExecute(action') /\ k \in Produces(action'.node)
       /\ \A k \in DOMAIN state' :
             k = PENDING \/ \E n \in DOMAIN produces : k \in produces[n]]_vars

\* X is executed with a payload for field c, which X does not produce:
\* c is not written
C13_Witness ==
    /\ IsExecute(action)
    /\ action.node = "X"
    /\ "payload" \in DOMAIN action
    /\ "c" \in DOMAIN action.payload
    /\ "c" \notin Produces("X")
    /\ PENDING \in DOMAIN state
    /\ "c" \notin DOMAIN state
    /\ Produces("X") \subseteq DOMAIN state


(***************************************************************************)
(* Vocabulary of the properties of the readiness validators, defined from  *)
(* the wording of the claims.                                              *)
(***************************************************************************)
IsGenerateReport(a) == ActType(a) = "GENERATE_REPORT"

\* the names under which a canonical field is looked up, canonical first
LookupNames(k) == <<k>> \o (IF k \in DOMAIN KEY_ALIASES THEN KEY_ALIASES[k] ELSE <<>>)

\* alias-aware presence: the first of the field's names that is a key of st
\* holds a value that is not None and not an empty string, list or map
FieldPresent(st, k) ==
    LET names == LookupNames(k)
        found == {i \in 1..Len(names) : names[i] \in DOMAIN st}
    IN /\ found # {}
       /\ LET first == CHOOSE i \in found : \A j \in found : i <= j
              val == st[names[first]]
          IN ~(\/ val.t = "none"
               \/ val.t \in {"str", "list"} /\ Len(val.v) = 0
               \/ val.t = "dict" /\ DOMAIN val.v = {})

EventsOfKind(ev, kind) == {i \in 1..Len(ev) : ev[i].kind = kind}

(***************************************************************************)
(* C14: for every state, GENERATE_REPORT returns ok = true if and only if  *)
(* validate_node_ready passes for TI-RADS and for VIS_REPORT on that       *)
(* state; when neither gate has an error, ok is true whatever the          *)
(* warnings are.                                                           *)
(***************************************************************************)
C14_GenerateReportGating ==
    [][IsGenerateReport(action') =>
         LET tri == validate_node_ready("TI-RADS", state)
             vis == validate_node_ready("VIS_REPORT", state)
         IN /\ ok' = (tri.passed /\ vis.passed)
            /\ (Len(tri.errors) = 0 /\ Len(vis.errors) = 0) => ok' = TRUE]_vars

\* a report that passes although both gates warn
C14_Witness ==
    /\ IsGenerateReport(action)
    /\ ok = TRUE
    /\ \E i, j \in EventsOfKind(events, "WARNING") : i # j

(***************************************************************************)
(* C15: GENERATE_REPORT never mutates anything: whether the result is ok   *)
(* or not, state (including _pending_slots) and executed_nodes after the   *)
(* call equal their values before the call.                                *)
(***************************************************************************)
C15_GenerateReportNoMutation ==
    [][IsGenerateReport(action') =>
         /\ state' = state
         /\ executed_nodes' = executed_nodes]_vars

\* a report that passes on a state with pending slots and a history
C15_Witness ==
    /\ IsGenerateReport(action)
    /\ ok = TRUE
    /\ PENDING \in DOMAIN state
    /\ Len(executed_nodes) > 0

(***************************************************************************)
(* C17: in every state in which neither the conclusion text nor the        *)
(* recommendation is present (alias-aware), GENERATE_REPORT returns        *)
(* ok = false and its events have at least two ERROR entries, one naming   *)
(* each missing field.                                                     *)
(***************************************************************************)
C17_MissingRequiredReported ==
    [][(/\ IsGenerateReport(action')
        /\ ~FieldPresent(state, "state.conclusion_text")
        /\ ~FieldPresent(state, "state.recommendation")) =>
         /\ ok' = FALSE
         /\ \E i, j \in EventsOfKind(events', "ERROR") :
               /\ i # j
               /\ events'[i].text = "VIS_REPORT: Missing required: state.conclusion_text"
               /\ events'[j].text = "VIS_REPORT: Missing required: state.recommendation"]_vars

\* Scenario C with grading evidence: the two missing fields are the only errors
C17_Witness ==
    /\ IsGenerateReport(action)
    /\ ~FieldPresent(state, "state.conclusion_text")
    /\ ~FieldPresent(state, "state.recommendation")
    /\ FieldPresent(state, "state.tirads_score")
    /\ ok = FALSE
    /\ Cardinality(EventsOfKind(events, "ERROR")) = 2

(***************************************************************************)
(* C18: the events of GENERATE_REPORT are exactly one summary event        *)
(* "GENERATE_REPORT validated: passed=<ok>" first, then one ERROR event    *)
(* per error of the two gates, then one WARNING event per warning; no      *)
(* WARNING event precedes an ERROR event, and the summary's passed value   *)
(* equals the returned ok.                                                 *)
(***************************************************************************)
C18_GenerateReportEventOrder ==
    [][IsGenerateReport(action') =>
         LET tri == validate_node_ready("TI-RADS", state)
             vis == validate_node_ready("VIS_REPORT", state)
             E == EventsOfKind(events', "ERROR")
             W == EventsOfKind(events', "WARNING")
         IN /\ EventsOfKind(events', "GENERATE_REPORT validated") = {1}
            /\ events'[1].passed = ok'
            /\ Cardinality(E) = Len(tri.errors) + Len(vis.errors)
            /\ Cardinality(W) = Len(tri.warnings) + Len(vis.warnings)
            /\ Len(events') = 1 + Cardinality(E) + Cardinality(W)
            /\ \A e \in E, w \in W : e < w]_vars

\* a failing report in which the grading gate warns and the report gate errs
C18_Witness ==
    /\ IsGenerateReport(action)
    /\ ok = FALSE
    /\ \E w \in EventsOfKind(events, "WARNING"), e \in EventsOfKind(events, "ERROR") :
          /\ events[w].text = "TI-RADS: TI-RADS skipped: no discrete thyroid nodule."
          /\ events[e].text = "VIS_REPORT: Missing required: state.recommendation"


\* the value of the first of the field's names that is a key of st
LookupValue(st, k) ==
    LET names == LookupNames(k)
        found == {i \in 1..Len(names) : names[i] \in DOMAIN st}
    IN IF found = {} THEN NoneVal
       ELSE st[names[CHOOSE i \in found : \A j \in found : i <= j]]

NonEmptyValue(val) ==
    ~(\/ val.t = "none"
      \/ val.t \in {"str", "list"} /\ Len(val.v) = 0
      \/ val.t = "dict" /\ DOMAIN val.v = {})

\* the value reads as the integer zero: the number 0 (False is the number 0
\* in Python), or a text of zeros with an optional sign and blanks around it
DenotesZero(val) ==
    \/ val.t = "int" /\ val.v = 0
    \/ val.t = "bool" /\ val.v = FALSE
    \/ /\ val.t = "str"
       /\ LET body == SelectSeq(val.v, LAMBDA c : c \notin WHITESPACE)
              digits == IF body # <<>> /\ body[1] \in {"+", "-"} THEN Tail(body)
                        ELSE body
          IN /\ digits # <<>>
             /\ \A i \in 1..Len(digits) : digits[i] = "0"
             /\ \A i \in 1..Len(val.v) :
                   val.v[i] \in WHITESPACE =>
                      \/ \A j \in 1..i : val.v[j] \in WHITESPACE
                      \/ \A j \in i..Len(val.v) : val.v[j] \in WHITESPACE

\* the quantity field (canonical or alias) indicates a zero count
ZeroCount(st) == DenotesZero(LookupValue(st, "state.thyroid_nodules_quantity"))

GradeKeys == {"ti_rads_score", "tirads_score", "ti_rads", "tirads"}

\* the per-item entries of st: the members of a list `nodules` found in st
\* itself or in one of the maps that can hold it
ItemEntries(st) ==
    LET holders == {DictVal(st)} \cup
                   {st[h] : h \in {"state.thyroid_nodules_detail", "thyroid_nodules_detail",
                                   "state", "ultrasound"} \cap DOMAIN st}
        lists == {c.v["nodules"] : c \in {h \in holders :
                                           h.t = "dict" /\ "nodules" \in DOMAIN h.v}}
    IN UNION {SeqToSet(l.v) : l \in {x \in lists : x.t = "list"}}

\* at least one per-item entry carries a grade: a grade key of the entry
\* holds a value that is not None and not empty
HasItemGrade(st) ==
    \E n \in ItemEntries(st) :
        n.t = "dict" /\ \E g \in GradeKeys \cap DOMAIN n.v : NonEmptyValue(n.v[g])

OverallGradePresent(st) ==
    FieldPresent(st, "state.tirads_score") \/ FieldPresent(st, "state.tirads_label")

MutexViolated(st) ==
    \/ FieldPresent(st, "state.conclusion_benign")
         /\ FieldPresent(st, "state.conclusion_malignant")
    \/ FieldPresent(st, "state.func_hyper") /\ FieldPresent(st, "state.func_hypo")

(***************************************************************************)
(* C19: validate_state_for_report(state) passes if and only if the         *)
(* conclusion text is present, the recommendation is present, grading      *)
(* evidence exists (an overall score or an overall label present, or at    *)
(* least one per-item grade) unless the quantity field indicates a zero    *)
(* count, and in neither mutually-exclusive pair are both fields present.  *)
(***************************************************************************)
C19_ReportPassesIff ==
    validate_state_for_report(state).passed <=>
        /\ FieldPresent(state, "state.conclusion_text")
        /\ FieldPresent(state, "state.recommendation")
        /\ ZeroCount(state) \/ OverallGradePresent(state) \/ HasItemGrade(state)
        /\ ~MutexViolated(state)

(***************************************************************************)
(* C20: when the quantity field does not indicate a zero count,            *)
(* validate_node_ready("TI-RADS", state) passes if and only if an overall  *)
(* score or an overall label is present or at least one per-item entry     *)
(* carries a grade; with none of them there is an error, and with only a   *)
(* per-item grade (no overall field) it passes with a warning.             *)
(***************************************************************************)
C20_GradingGateIff ==
    ~ZeroCount(state) =>
        LET r == validate_node_ready("TI-RADS", state)
        IN /\ r.passed <=> (OverallGradePresent(state) \/ HasItemGrade(state))
           /\ ~(OverallGradePresent(state) \/ HasItemGrade(state)) => Len(r.errors) > 0
           /\ (HasItemGrade(state) /\ ~OverallGradePresent(state)) =>
                 r.passed /\ Len(r.warnings) > 0


(***************************************************************************)
(* C16: readiness failure is recoverable: from every reachable state in    *)
(* which GENERATE_REPORT returns ok = false (also after a rollback, also   *)
(* after a failed GENERATE_REPORT) there is a finite sequence of further   *)
(* actions after which GENERATE_REPORT returns ok = true, in a registry    *)
(* with nodes producing the conclusion, the recommendation and a grading   *)
(* field.  The sequence is exhibited: EXECUTE of the grading node with a   *)
(* grade, then EXECUTE of the report node with the two texts and one of    *)
(* the contradictory conclusions withdrawn.                                *)
(***************************************************************************)
RecoveryActions ==
    << [type |-> "EXECUTE", node |-> "TI-RADS", payload |-> GradePayload],
       [type |-> "EXECUTE", node |-> "VIS_REPORT", payload |-> ReportPayload] >>

ReportOk(st, ex) == step(st, ex, [type |-> "GENERATE_REPORT"]).ok

AfterRecovery(st, ex) ==
    LET r1 == step(st, ex, RecoveryActions[1])
    IN step(r1.updated_state, r1.executed_nodes, RecoveryActions[2])

C16_ReadinessRecoverable ==
    /\ SeqToSet(RecoveryActions) \subseteq WorkflowExecuteActions
    /\ ~ReportOk(state, executed_nodes) =>
          LET r == AfterRecovery(state, executed_nodes)
          IN ReportOk(r.updated_state, r.executed_nodes)

\* a GENERATE_REPORT that failed on contradictory conclusions, after the
\* grade was cleared
C16_Witness ==
    /\ IsGenerateReport(action)
    /\ ok = FALSE
    /\ FieldPresent(state, "state.conclusion_benign")
    /\ FieldPresent(state, "state.conclusion_malignant")
    /\ "state.tirads_score" \notin DOMAIN state
    /\ "TI-RADS" \notin SeqToSet(executed_nodes)

(***************************************************************************)
(* C21: whenever the quantity field (canonical or alias) indicates a zero  *)
(* count, validate_node_ready("TI-RADS", state) passes with no errors and  *)
(* with the "skipped" warning, whatever the other fields of state are; and *)
(* validate_state_for_report does not require grading evidence: it has no  *)
(* grading-evidence error, and it warns about the gland-level fields       *)
(* exactly when neither thyroid_echo nor diffuse_lesion_evaluation_result  *)
(* is present.                                                             *)
(***************************************************************************)
Contains(msgs, m) == \E i \in 1..Len(msgs) : msgs[i] = m

GradingErrorTexts ==
    {"Need TI-RADS evidence: either overall (state.tirads_*) or per-nodule ti_rads_score.",
     "Need TI-RADS: overall (state.tirads_*) or per-nodule ti_rads_score."}

GlandFieldPresent(st) ==
    FieldPresent(st, "state.thyroid_echo")
      \/ FieldPresent(st, "state.diffuse_lesion_evaluation_result")

TierPrefixes ==
    {p \o t : p \in {<<>>, <<"T", "I", "-", "R", "A", "D", "S">>,
                     <<"T", "I", "R", "A", "D", "S">>},
              t \in {<<>>, <<"T", "R">>}}

TierTexts(d) ==
    {p \o <<DIGITS[d + 1]>> \o x :
        p \in TierPrefixes,
        x \in (IF d = 4 THEN {<<>>, <<"A">>, <<"B">>, <<"C">>} ELSE {<<>>})}

\* the tier a grade value ranks to: {d}, or {} when it is not in the table;
\* case and blanks do not matter, a number reads as its decimal text
TierOf(val) ==
    IF val.t \notin {"str", "int"} THEN {}
    ELSE LET text == SelectSeq(_upper(_str(val)), LAMBDA c : c \notin WHITESPACE)
         IN {d \in 1..5 : text \in TierTexts(d)}

OverallScore(st) == LookupValue(st, "state.tirads_score")
OverallLabel(st) == LookupValue(st, "state.tirads_label")

\* both overall grade fields are present and rank to different tiers
TierMismatch(st) ==
    /\ FieldPresent(st, "state.tirads_score")
    /\ FieldPresent(st, "state.tirads_label")
    /\ TierOf(OverallScore(st)) # {}
    /\ TierOf(OverallLabel(st)) # {}
    /\ TierOf(OverallScore(st)) # TierOf(OverallLabel(st))

\* st with the overall label removed under each of its names
WithoutLabel(st) ==
    [k \in (DOMAIN st) \ SeqToSet(LookupNames("state.tirads_label")) |-> st[k]]

(***************************************************************************)
(* C22: whenever both overall grade fields (score and label) are present   *)
(* and they do not rank to the same tier of the grade-ordering table, both *)
(* validate_state_for_report and validate_node_ready("TI-RADS") emit at    *)
(* least one warning, and the mismatch adds no error and does not change   *)
(* passed: errors and passed are what they are without the label.          *)
(***************************************************************************)
C22_TierMismatchWarns ==
    TierMismatch(state) =>
        LET rep == validate_state_for_report(state)
            tri == validate_node_ready("TI-RADS", state)
            rep0 == validate_state_for_report(WithoutLabel(state))
            tri0 == validate_node_ready("TI-RADS", WithoutLabel(state))
        IN /\ Len(rep.warnings) >= 1
           /\ Len(tri.warnings) >= 1
           /\ rep.errors = rep0.errors /\ rep.passed = rep0.passed
           /\ tri.errors = tri0.errors /\ tri.passed = tri0.passed

(***************************************************************************)
(* C23: alias-aware lookup.  For every canonical field and every state the *)
(* lookup returns the canonical field's value if the canonical field is    *)
(* present (not absent and not an empty string/list/map), otherwise the    *)
(* value of the first name of its ordered alternate list that is found in  *)
(* state, otherwise absent; hence a field counts as present for the        *)
(* readiness checks whenever its canonical key or any alternate holds a    *)
(* non-empty value, also when the canonical key holds the empty marker     *)
(* written by an EXECUTE without payload.                                  *)
(***************************************************************************)
CanonicalFields == DOMAIN KEY_ALIASES

\* the lookup as the claim words it
LookupAsStated(st, k) ==
    IF k \in DOMAIN st /\ NonEmptyValue(st[k]) THEN st[k]
    ELSE LET alts == KEY_ALIASES[k]
             found == {i \in 1..Len(alts) : alts[i] \in DOMAIN st}
         IN IF found = {} THEN NoneVal
            ELSE st[alts[CHOOSE i \in found : \A j \in found : i <= j]]

\* equal, or both empty (absent and the empty markers are not told apart)
SameLookup(a, b) == a = b \/ (~NonEmptyValue(a) /\ ~NonEmptyValue(b))

AnyNameHoldsValue(st, k) ==
    \E n \in SeqToSet(LookupNames(k)) : n \in DOMAIN st /\ NonEmptyValue(st[n])

C23_AliasAwareLookup ==
    \A k \in CanonicalFields :
        /\ SameLookup(_get(state, k), LookupAsStated(state, k))
        /\ AnyNameHoldsValue(state, k) => _present(state, k)
        /\ _present(state, k) => AnyNameHoldsValue(state, k)

(***************************************************************************)
(* C24: CLARIFY always succeeds and only touches _pending_slots: after the *)
(* call _pending_slots is the sorted, duplicate-free list of the slots it  *)
(* held before and the clarified slot (so, with no intervening clear of    *)
(* the key, of all slots clarified so far); clarifying the same slot twice *)
(* equals clarifying it once and the order of CLARIFY actions does not     *)
(* matter; every other state key and the history are unchanged.            *)
(***************************************************************************)
IsClarify(a) == ActType(a) = "CLARIFY"

PendingSlots(st) == IF PENDING \in DOMAIN st THEN SeqToSet(st[PENDING]) ELSE {}

\* position of a slot name in string order
SlotRank(s) == CHOOSE i \in 1..Len(SlotOrder) : SlotOrder[i] = s

\* strictly increasing in string order: sorted and duplicate-free
StrictlySorted(l) == \A i, j \in 1..Len(l) : i < j => SlotRank(l[i]) < SlotRank(l[j])

ClarifiedState(st, ex, slot) ==
    step(st, ex, [type |-> "CLARIFY", slot |-> slot]).updated_state

C24_ClarifyPendingSlots ==
    [][IsClarify(action') =>
         LET slot == action'.slot
         IN /\ ok' = TRUE
            /\ PENDING \in DOMAIN state'
            /\ SeqToSet(state'[PENDING]) = PendingSlots(state) \cup {slot}
            /\ StrictlySorted(state'[PENDING])
            /\ DOMAIN state' = (DOMAIN state) \cup {PENDING}
            /\ \A k \in (DOMAIN state) \ {PENDING} : state'[k] = state[k]
            /\ executed_nodes' = executed_nodes
            /\ ClarifiedState(state', executed_nodes', slot) = state'
            /\ \A second \in {a.slot : a \in WorkflowClarifyActions} :
                  ClarifiedState(state', executed_nodes', second)
                    = ClarifiedState(ClarifiedState(state, executed_nodes, second),
                                     executed_nodes, slot)]_vars

\* the slot that sorts first is clarified second, on a trajectory that holds
\* fields and a history
C24_Witness ==
    /\ IsClarify(action)
    /\ action.slot = "state.tirads_score"
    /\ state[PENDING] = <<"state.tirads_score", "thyroid_nodules_detail">>
    /\ "state.tirads_score" \in DOMAIN state
    /\ Len(executed_nodes) = Len(WorkflowNodes)

(***************************************************************************)
(* C25: schema gate.  Through the step installed by load_simulator, an     *)
(* action that violates the action schema (a ROLLBACK without policy, a    *)
(* custom ROLLBACK with neither include_nodes nor fields, a missing or     *)
(* unknown type or policy, a missing node or slot) returns ok = false with *)
(* exactly one event, a SchemaError event; the core transition is not      *)
(* invoked, and state and history are unchanged.  An action that satisfies *)
(* the schema is handed to the core transition and its result is returned  *)
(* unchanged.                                                              *)
(***************************************************************************)
Lacks(a, k) == k \notin DOMAIN a

ViolatesSchema(a) ==
    \/ Lacks(a, "type")
    \/ ActType(a) \notin KnownTypes
    \/ ActType(a) = "EXECUTE" /\ Lacks(a, "node")
    \/ ActType(a) = "CLARIFY" /\ Lacks(a, "slot")
    \/ /\ ActType(a) = "ROLLBACK"
       /\ \/ Lacks(a, "node")
          \/ Lacks(a, "policy")
          \/ a.policy \notin KnownPolicies
          \/ a.policy = "custom" /\ Lacks(a, "include_nodes") /\ Lacks(a, "fields")

C25_SchemaGate ==
    [][action' # EmptyDict =>
         IF ViolatesSchema(action')
         THEN /\ ok' = FALSE
              /\ Len(events') = 1
              /\ events'[1].kind = "SchemaError"
              /\ Len(events'[1].lines) >= 1
              /\ state' = state
              /\ executed_nodes' = executed_nodes
         ELSE LET r == step(state, executed_nodes, action')
              IN /\ ok' = r.ok
                 /\ events' = r.events
                 /\ state' = r.updated_state
                 /\ executed_nodes' = r.executed_nodes]_vars

\* test_invalid_action_missing_policy on a trajectory the core would change:
\* the node is in the history and its field in state
C25_Witness ==
    /\ action = [type |-> "ROLLBACK", node |-> "NODULE_EVAL"]
    /\ ok = FALSE
    /\ Len(events) = 1
    /\ events[1].kind = "SchemaError"
    /\ "NODULE_EVAL" \in SeqToSet(executed_nodes)
    /\ "state.thyroid_nodules_quantity" \in DOMAIN state

(***************************************************************************)
(* C26: missing registry entries never make the core fail.  For a node     *)
(* name that is absent from the registry, the graph and the rule table,    *)
(* EXECUTE and ROLLBACK under each of the three policies return a result   *)
(* record, with the node's produces, clears and downstream sets taken as   *)
(* empty: EXECUTE writes zero fields, and a full_downstream or             *)
(* aggregate_only ROLLBACK deletes only the Always-Cleared Set.            *)
(***************************************************************************)
InNoTable(n) ==
    /\ n \notin DOMAIN produces
    /\ n \notin DOMAIN node_graph
    /\ \A m \in DOMAIN node_graph : n \notin SeqToSet(node_graph[m])
    /\ n \notin DOMAIN rule_clears
    /\ n \notin aggregate_nodes

IsResultRecord(o, ev) == o \in BOOLEAN /\ Len(ev) >= 1

C26_UnregisteredNodeTolerated ==
    [][("node" \in DOMAIN action' /\ InNoTable(action'.node)) =>
         /\ IsResultRecord(ok', events')
         /\ IsExecute(action') =>
               /\ ok' = TRUE
               /\ state' = state
               /\ events'[1].wrote = 0
               /\ executed_nodes' =
                     IF action'.node \in SeqToSet(executed_nodes) THEN executed_nodes
                     ELSE Append(executed_nodes, action'.node)
         /\ (IsRollbackWith(action', "full_downstream")
               \/ IsRollbackWith(action', "aggregate_only")) =>
               /\ ok' = TRUE
               /\ DeletedExactly(state, state', reports_fixed)
               /\ events'[1].removed = {action'.node}
               /\ RemovedExactly(executed_nodes, executed_nodes', {action'.node})
         /\ IsRollbackWith(action', "custom") =>
               /\ ok' = TRUE
               /\ DeletedExactly(state, state', reports_fixed)]_vars

\* a full_downstream rollback of the unregistered node on a state that holds
\* the report: only the field of the Always-Cleared Set is gone
C26_Witness ==
    /\ IsRollbackWith(action, "full_downstream")
    /\ action.node = UNREGISTERED
    /\ InNoTable(UNREGISTERED)
    /\ ok = TRUE
    /\ events[1].cleared = Cardinality(reports_fixed)
    /\ reports_fixed = {"state.conclusion_text"}
    /\ "state.conclusion_text" \notin DOMAIN state
    /\ "state.recommendation" \in DOMAIN state
    /\ "state.tirads_score" \in DOMAIN state
    /\ executed_nodes = WorkflowNodes

(***************************************************************************)
(* C27: independent trajectories do not interfere.  step never modifies    *)
(* the configuration (registry, graph, rule table, aggregate set,          *)
(* always-cleared set), and for two trajectories that own separate state   *)
(* and history objects but share one configuration, in every interleaving  *)
(* of their step calls each call leaves the other trajectory's objects     *)
(* untouched and returns what the same call returns when the trajectory    *)
(* runs alone: the result of the step function on the trajectory's own     *)
(* state and history under the configuration as constructed.               *)
(***************************************************************************)
ConfigAsConstructed ==
    /\ produces = Dict3("X", {"a"}, "Y", {"b"}, "Z", {"c"})
    /\ node_graph = Dict2("X", <<"Y">>, "Y", <<"Z">>)
    /\ rule_clears = Dict1("Y", {"a", "b"})
    /\ aggregate_nodes = {"Z"}
    /\ reports_fixed = {"c"}

FirstCalls == action = EmptyDict /\ action' # EmptyDict
SecondCalls == other.action = EmptyDict /\ other'.action # EmptyDict

\* what a trajectory running alone gets: deletions and writes determined by
\* its own state and history and the configuration as constructed
AloneResult(st, ex, act, st2, ex2) ==
    CASE IsExecute(act) ->
           /\ DOMAIN st2 = (DOMAIN st) \cup Produces(act.node)
           /\ \A k \in (DOMAIN st) \ Produces(act.node) : st2[k] = st[k]
           /\ ex2 = IF act.node \in SeqToSet(ex) THEN ex ELSE Append(ex, act.node)
      [] IsRollbackWith(act, "full_downstream") ->
           /\ DeletedExactly(st, st2, ClearsFullDownstream(act.node))
           /\ RemovedExactly(ex, ex2, {act.node} \cup Downstream(act.node))
      [] IsRollbackWith(act, "aggregate_only") ->
           /\ DeletedExactly(st, st2, ClearsAggregateOnly(act.node))
           /\ RemovedExactly(ex, ex2, AggregateAffected(act.node))
      [] IsClarify(act) ->
           /\ SeqToSet(st2[PENDING]) = PendingSlots(st) \cup {act.slot}
           /\ ex2 = ex
      [] OTHER -> st2 = st /\ ex2 = ex

C27_TrajectoriesIndependent ==
    [][/\ ConfigAsConstructed => ConfigAsConstructed'
       /\ cfgvars' = cfgvars
       /\ FirstCalls =>
            /\ other' = other
            /\ ConfigAsConstructed =>
                 AloneResult(state, executed_nodes, action', state', executed_nodes')
       /\ SecondCalls =>
            /\ <<state, executed_nodes, action, ok, events>>' =
                 <<state, executed_nodes, action, ok, events>>
            /\ ConfigAsConstructed =>
                 AloneResult(other.state, other.executed_nodes, other'.action,
                             other'.state, other'.executed_nodes)]_vars

\* the first caller rolls X back while the second holds the result of its
\* EXECUTE of Y: the second trajectory keeps its fields and its history
C27_Witness ==
    /\ IsRollbackWith(action, "full_downstream")
    /\ action.node = "X"
    /\ executed_nodes = <<>>
    /\ DOMAIN state = {PENDING}
    /\ IsExecute(other.action)
    /\ other.executed_nodes = <<"X", "Y">>
    /\ DOMAIN other.state = {"a", "b"}

(***************************************************************************)
(* C28: when neither an overall grade field nor any per-item grade is      *)
(* present (and the count is not zero), validate_state_for_report and      *)
(* validate_node_ready("TI-RADS") each fail with an error whose text       *)
(* contains "Require at least one of"; validate_state_for_report on the    *)
(* empty state additionally reports an error containing "Missing           *)
(* required".                                                              *)
(***************************************************************************)
TextContains(m, phrase) ==
    \E i \in 1..Len(m) :
        i + Len(phrase) - 1 <= Len(m) /\ SubSeq(m, i, i + Len(phrase) - 1) = phrase

SomeContains(msgs, phrase) == \E i \in 1..Len(msgs) : TextContains(msgs[i], phrase)

NoGradingEvidence(st) ==
    ~OverallGradePresent(st) /\ ~HasItemGrade(st) /\ ~ZeroCount(st)

C28_GradingEvidenceErrorText ==
    NoGradingEvidence(state) =>
        LET rep == validate_state_for_report(state)
            tri == validate_node_ready("TI-RADS", state)
        IN /\ ~rep.passed
           /\ SomeContains(rep.errors, "Require at least one of")
           /\ ~tri.passed
           /\ SomeContains(tri.errors, "Require at least one of")
           /\ state = EmptyDict => SomeContains(rep.errors, "Missing required")

(***************************************************************************)
(* C29: for every finite graph (acyclic or not) and every node,            *)
(* downstream_of(node) is exactly the set of nodes reachable from node by  *)
(* one or more directed edges, node itself excluded; the result does not   *)
(* depend on the order in which the traversal visits the worklist or on    *)
(* the order of the edge lists.                                            *)
(***************************************************************************)
\* q without its k-th element
Without(q, k) == SubSeq(q, 1, k - 1) \o SubSeq(q, k + 1, Len(q))

\* the sets a traversal can end with when it takes any element of the
\* worklist next (the code takes the last one)
RECURSIVE AnyVisitingOrder(_, _)
AnyVisitingOrder(seen, q) ==
    IF q = <<>> THEN {seen}
    ELSE UNION { AnyVisitingOrder(
                     _scan_edges(Get(node_graph, q[k], <<>>), 1, seen, Without(q, k)).seen,
                     _scan_edges(Get(node_graph, q[k], <<>>), 1, seen, Without(q, k)).q)
                 : k \in 1..Len(q) }

C29_DownstreamIsReachability ==
    ActType(action) = "ROLLBACK" =>
        LET n == action.node
        IN /\ _downstream_nodes(n) = Downstream(n)
           /\ \A s \in AnyVisitingOrder({}, <<n>>) : s \ {n} = Downstream(n)
           /\ IsRollbackWith(action, "aggregate_only")
                 => SeqToSet(executed_nodes) \cap ({n} \cup (Downstream(n) \cap aggregate_nodes)) = {}
           /\ ~IsRollbackWith(action, "aggregate_only")
                 => SeqToSet(executed_nodes) \cap ({n} \cup Downstream(n)) = {}

\* a rollback has returned on a graph with a self-loop and a cycle whose
\* edge list is not in node order; the start node is reachable from itself
C29_Witness ==
    /\ node_graph["X"] = <<"Z", "X", "Y">>
    /\ node_graph["Y"] = <<"X">>
    /\ node_graph["Z"] = <<>>
    /\ IsRollbackWith(action, "full_downstream")
    /\ action.node = "Y"
    /\ Downstream("Y") = {"X", "Z"}
    /\ executed_nodes = <<>>

(***************************************************************************)
(* C30: the downstream traversal terminates on every finite graph,         *)
(* including graphs with cycles and self-loops: each node is put on the    *)
(* worklist a bounded number of times because of the seen-set (once, and   *)
(* the start node at most twice), so every ROLLBACK step eventually        *)
(* returns.                                                                *)
(***************************************************************************)
Traversing == traversal.pc # "idle"

PushBound ==
    /\ \A m \in NodeNames :
          traversal.pushes[m] <= IF m = traversal.node THEN 2 ELSE 1
    /\ \A m \in NodeNames \ {traversal.node} :
          traversal.pushes[m] = IF m \in traversal.seen THEN 1 ELSE 0
    /\ Len(traversal.q) <= Cardinality(NodeNames)

RollbackReturned ==
    /\ ~Traversing
    /\ ActType(action) = "ROLLBACK"
    /\ ok = TRUE
    /\ Len(events) = 1

C30_TraversalTerminates ==
    /\ [](Traversing => PushBound)
    /\ [](Traversing /\ traversal.pc = "while" /\ traversal.q = <<>>
            => traversal.seen \ {traversal.node} = _downstream_nodes(traversal.node))
    /\ Traversing ~> RollbackReturned

\* a rollback has returned on a graph in which the start node has a
\* self-loop and lies on a cycle through all nodes
C30_Witness ==
    /\ RollbackReturned
    /\ action.node = "X"
    /\ {"X", "Y"} \subseteq Succ("X")
    /\ "Z" \in Succ("Y")
    /\ "X" \in Succ("Z")
    /\ executed_nodes = <<>>

(***************************************************************************)
(* C31: clears_full_downstream(N) equals the union, over every member M of *)
(* {N} \cup downstream_of(N), of M's rule-table clears set when that set   *)
(* is non-empty and of produces(M) when M has no rule entry or an empty    *)
(* clears set, unioned with the Always-Cleared Set; it contains no other   *)
(* field.                                                                  *)
(***************************************************************************)
HasClears(m) == m \in DOMAIN rule_clears /\ rule_clears[m] # {}

FieldOfMember(f, N) ==
    \E m \in {N} \cup Downstream(N) :
        IF HasClears(m) THEN f \in rule_clears[m] ELSE f \in Produces(m)

C31_ClearsFullDownstreamExact ==
    /\ \A N \in NodeNames :
          \A f \in Fields \cup _clears_full_downstream(N) :
              f \in _clears_full_downstream(N) <=> (FieldOfMember(f, N) \/ f \in reports_fixed)
    /\ IsRollbackWith(action, "full_downstream") =>
          events[1].cleared = Cardinality({f \in Fields : FieldOfMember(f, action.node) \/ f \in reports_fixed})

\* a rollback of X has returned where X has an explicit clears set, Y has no
\* entry and Z has an entry with an empty clears list: a, which X produces
\* and no member clears, is still in state
C31_Witness ==
    /\ IsRollbackWith(action, "full_downstream")
    /\ action.node = "X"
    /\ rule_clears = Dict2("X", {"c"}, "Z", {})
    /\ Downstream("X") = {"Y", "Z"}
    /\ Produces("Z") # {}
    /\ "a" \in Produces("X")
    /\ "a" \in DOMAIN state
    /\ events[1].cleared < Cardinality(Fields)

(***************************************************************************)
(* C32: the rule validator's acyclicity check is exact: for every set of   *)
(* defined nodes and every edge map, topo_check_acyclic returns True if    *)
(* and only if the graph has no directed cycle (it terminates in all       *)
(* cases, and when it returns True the returned order lists every node     *)
(* after all of its upstream nodes).                                       *)
(***************************************************************************)
HasCycle == \E n \in NodeNames : n \in Reachable(n)

PositionIn(order, n) == CHOOSE i \in 1..Len(order) : order[i] = n

OrderRespectsEdges(order) ==
    /\ DOMAIN produces \subseteq SeqToSet(order)
    /\ \A a \in SeqToSet(order) : \A n \in Succ(a) :
          n \in SeqToSet(order) /\ PositionIn(order, a) < PositionIn(order, n)

C32_AcyclicityCheckExact ==
    validation.ran =>
        /\ validation.ok_dag <=> ~HasCycle
        /\ validation.ok_dag => OrderRespectsEdges(validation.topo)

(***************************************************************************)
(* C33: the grading gate is implied by the report gate: for every state,   *)
(* if validate_node_ready("VIS_REPORT") passes then                        *)
(* validate_node_ready("TI-RADS") passes too, so the ok of GENERATE_REPORT *)
(* always equals the result of the report-node check alone and there is no *)
(* state in which the grading gate is the only failing gate.               *)
(***************************************************************************)
ReportGatePasses(st) == validate_node_ready("VIS_REPORT", st).passed
GradingGatePasses(st) == validate_node_ready("TI-RADS", st).passed

C33_ReportGateImpliesGradingGate ==
    /\ ReportGatePasses(state) => GradingGatePasses(state)
    /\ ActType(action) = "GENERATE_REPORT" => ok = ReportGatePasses(state)

\* GENERATE_REPORT has passed on a state with items, on the items' grades
\* alone: both gates looked for grading evidence and found it
C33_Witness ==
    /\ ActType(action) = "GENERATE_REPORT"
    /\ ok = TRUE
    /\ ~_is_no_nodule(state)
    /\ ReportGatePasses(state)
    /\ GradingGatePasses(state)
    /\ ~_present(state, "state.tirads_score")
    /\ ~_present(state, "state.tirads_label")

(***************************************************************************)
(* C34 as stated: under unique field ownership, starting from an empty     *)
(* state and empty history, after any sequence of EXECUTE, full_downstream *)
(* ROLLBACK and aggregate_only ROLLBACK actions, every node that is in     *)
(* executed_nodes has all the fields of its produces set present as keys   *)
(* in state.                                                               *)
(***************************************************************************)
HistoryHasItsFields ==
    \A n \in SeqToSet(executed_nodes) : Produces(n) \subseteq DOMAIN state

C34_Original == UniqueOwnership => HistoryHasItsFields

\* the nodes a rollback of N removes from the history
RemovedByFull(N) == {N} \cup Downstream(N)
RemovedByAggregate(N) == {N} \cup (Downstream(N) \cap aggregate_nodes)

ProducedBy(S) == UNION {Produces(m) : m \in S}

\* every field a graph rollback deletes is produced, if at all, by nodes that
\* the rollback removes from the history
ClearsStayWithRemoved ==
    \A N \in NodeNames :
        /\ ClearsFullDownstream(N) \cap ProducedBy(NodeNames \ RemovedByFull(N)) = {}
        /\ reports_fixed \cap ProducedBy(NodeNames \ RemovedByAggregate(N)) = {}

(***************************************************************************)
(* C34: under unique field ownership, and when no graph rollback deletes a *)
(* field produced by a node it leaves in the history (the rule clears sets *)
(* and the Always-Cleared Set hold no such field), every node in           *)
(* executed_nodes has all the fields of its produces set as keys in state, *)
(* after any sequence of EXECUTE and graph rollbacks from an empty start.  *)
(***************************************************************************)
C34_HistoryStateConsistency ==
    (UniqueOwnership /\ ClearsStayWithRemoved) => HistoryHasItsFields

\* an aggregate_only rollback of Y has returned in a configuration with a
\* non-empty Always-Cleared Set: X is still in the history with its field
C34_Witness ==
    /\ UniqueOwnership
    /\ ClearsStayWithRemoved
    /\ reports_fixed # {}
    /\ IsRollbackWith(action, "aggregate_only")
    /\ action.node = "Y"
    /\ executed_nodes = <<"X">>
    /\ Produces("X") # {}
    /\ Produces("X") \subseteq DOMAIN state
    /\ Produces("Z") \cap DOMAIN state = {}

(***************************************************************************)
(* C35: the outcome of GENERATE_REPORT depends only on state, never on the *)
(* execution history: for two calls with equal state and arbitrary         *)
(* different executed_nodes (including an empty history or one lacking the *)
(* grading and report nodes) the returned ok and events are identical.     *)
(***************************************************************************)
OtherHistories == { <<>>, <<"NODULE_EVAL">>, <<"VIS_REPORT", "TI-RADS">> }

C35_ReportIgnoresHistory ==
    [][IsGenerateReport(action') =>
         \A h \in OtherHistories :
             LET r == step_generate_report(state, h, action')
             IN r.ok = ok' /\ r.events = events']_vars

\* a report has passed for a caller whose history is empty
C35_Witness ==
    /\ IsGenerateReport(action)
    /\ ok = TRUE
    /\ executed_nodes = <<>>
    /\ ~_is_no_nodule(state)

(***************************************************************************)
(* C36: pending slots are never resolved implicitly: once CLARIFY has      *)
(* added a slot, it stays in _pending_slots across any later EXECUTE       *)
(* (including of a node that consumes or produces that field), CLARIFY and *)
(* GENERATE_REPORT, and across every ROLLBACK whose clear set does not     *)
(* contain the key _pending_slots; and the presence of pending slots never *)
(* changes the ok of GENERATE_REPORT.                                      *)
(***************************************************************************)
\* the clear set of a rollback, from the tables and the action
ClearSet(a) ==
    IF "policy" \notin DOMAIN a \/ a.policy = "full_downstream"
    THEN ClearsFullDownstream(a.node)
    ELSE IF a.policy = "aggregate_only" THEN ClearsAggregateOnly(a.node)
    ELSE IF a.policy = "custom" THEN CustomClears(a)
    ELSE {}

KeepsPending(a) ==
    ActType(a) = "ROLLBACK" => PENDING \notin ClearSet(a)

WithoutPending(st) == [k \in (DOMAIN st) \ {PENDING} |-> st[k]]

C36_PendingSlotsStay ==
    [][(action = EmptyDict /\ action' # EmptyDict) =>
         /\ KeepsPending(action') => PendingSlots(state) \subseteq PendingSlots(state')
         /\ IsGenerateReport(action') =>
               ok' = step(WithoutPending(state), executed_nodes, action').ok]_vars

\* the grade slot was clarified, and the grading node, which produces that
\* field, has been executed with a grade: the slot is still pending
C36_Witness ==
    /\ IsExecute(action)
    /\ action.node = "TI-RADS"
    /\ "payload" \in DOMAIN action
    /\ _present(state, "state.tirads_score")
    /\ "state.tirads_score" \in PendingSlots(state)

(***************************************************************************)
(* C37: the core transition, called without the schema gate, treats a      *)
(* ROLLBACK action that has no policy key as full_downstream: for every    *)
(* state, history and node it yields the same state, history and ok=true   *)
(* as the same action with policy full_downstream, rather than rejecting   *)
(* it.                                                                     *)
(***************************************************************************)
NoPolicyRollback(a) == ActType(a) = "ROLLBACK" /\ "policy" \notin DOMAIN a

C37_NoPolicyIsFullDownstream ==
    [][(action = EmptyDict /\ NoPolicyRollback(action')) =>
         LET r == step(state, executed_nodes,
                       WithKey(action', "policy", "full_downstream"))
         IN /\ ok' = TRUE
            /\ r.ok = TRUE
            /\ state' = r.updated_state
            /\ executed_nodes' = r.executed_nodes
            /\ events' = r.events
            /\ DOMAIN state' = (DOMAIN state) \ ClearsFullDownstream(action'.node)
            /\ SeqToSet(executed_nodes') =
                  SeqToSet(executed_nodes) \ ({action'.node} \cup Downstream(action'.node))]_vars

\* a rollback without a policy key has returned: it was accepted, it cleared
\* fields, and a node executed before it is still in the history
C37_Witness ==
    /\ NoPolicyRollback(action)
    /\ ok
    /\ events[1].kind = "ROLLBACK"
    /\ events[1].policy = "full_downstream"
    /\ events[1].cleared > 0
    /\ Downstream(action.node) # {}
    /\ executed_nodes # <<>>
    /\ DOMAIN state # {}

====
